---- MODULE Spec2Model ----
(***************************************************************************)
(* State-machine models of the node-tree managers of this repository:      *)
(*                                                                         *)
(*   ai::NodeTreeManager   (src/node_manager.hpp)          ParSpec         *)
(*   noir::NodeManager     (src/include/node_manager.hpp)  Spec            *)
(*                                                                         *)
(* Node pointers are slot numbers (1, 2, ...) and nullptr is Null.  A      *)
(* std::priority_queue is a bag of entries whose top() is an entry of      *)
(* maximal priority; which of several equal entries is on top depends on   *)
(* the heap layout of the standard library and is left open.               *)
(***************************************************************************)
EXTENDS Integers, Sequences, FiniteSets, Bags, TLC

Null == 0

\* std::numeric_limits<uint32_t>::max(), the lane id of a deallocated node:
\* all 32 bits set, written as the two's-complement number with those bits
ThreadIdMax == -1

(***************************************************************************)
(* Bounds of the model.                                                    *)
(***************************************************************************)
\* allocations (allocate_root and allocate_new_node) of one run of the
\* parallel manager; no more slots than that are ever created
MaxAllocations == 5
\* states are 1..NumStates; 0 is the value-initialised State of a fresh slot
NumStates == 3
\* scores reported for children are 1..MaxValue
MaxValue == 2
\* cap on Node::total_value (finalize is not taken beyond it)
MaxTotalValue == 4
\* thread_count handed to reset
ThreadCount == 2
\* iterations of the driver's outer loop (a reset or a successful try_advance)
MaxIterations == 3
\* NodeTreeConfig of the parallel manager, as set through get_config()
CfgDepth == 2
CfgDepthTaskSize == 2
CfgPruneWidth == 2
CfgAwardWidth == 2

States == 1..NumStates
Values == 1..MaxValue

\* HashFunc / StateHash supplied by the caller: states 1 and 3 share a hash
hash_func(s) == s % 2

\* the CollisionFunc of the parallel manager's instantiation: TRUE when it
\* reports every pair of states as colliding, FALSE when it is operator==
VARIABLE collision_always

\* config.depth_task_size, which the caller sets before the first call
VARIABLE depth_task_size

\* what the caller fixes before the first call
aiSetup == <<collision_always, depth_task_size>>

\* a collision predicate that is operator== whatever the instantiation; the
\* property of the always-true predicate must tell it from collision_func
SameState(a, b) == a = b

\* CollisionFunc supplied by the caller
collision_func(a, b) == collision_always \/ a = b

(***************************************************************************)
(* Bag helpers for std::priority_queue<NodeValue>.                         *)
(***************************************************************************)
NodeValue(n, v) == [node |-> n, value |-> v]

PQPush(q, e) == q (+) SetToBag({e})

PQRemove(q, e) == q (-) SetToBag({e})

PQEmpty(q) == BagToSet(q) = {}

PQSize(q) == BagCardinality(q)

\* a top() that may return any entry; the order of get_tasks must tell it
\* from the heap's
PQAnyEntry(q) == BagToSet(q)

\* the entries top() may return under NodeValueCompare (left.value < right.value)
PQTops(q) == {e \in BagToSet(q) : \A f \in BagToSet(q) : f.value <= e.value}

\* every order in which at most k successive top()/pop() calls can empty q:
\* a set of [popped: sequence of entries, rest: bag]
RECURSIVE PQPopSeqs(_, _)
PQPopSeqs(q, k) ==
    IF k = 0 \/ PQEmpty(q)
    THEN {[popped |-> <<>>, rest |-> q]}
    ELSE UNION {{[popped |-> <<e>> \o r.popped, rest |-> r.rest] :
                    r \in PQPopSeqs(PQRemove(q, e), k - 1)} : e \in PQTops(q)}

\* the entries of q whose node is in kept (export, remove, import)
PQFilter(q, kept) ==
    [e \in {x \in BagToSet(q) : x.node \in kept} |-> q[e]]

SeqSet(s) == {s[i] : i \in 1..Len(s)}

(***************************************************************************)
(* Variables of the parallel manager, ai::NodeTreeManager.                 *)
(***************************************************************************)
VARIABLES
    ai_node,         \* slot -> Node (the slots of all lanes' node_storage)
    lanes,           \* NodeMemoryLanes::lanes: thread id -> NodeMemory
    pending_depths,  \* depth -> DepthTasks
    root,            \* NodeTreeManager::root
    threads,         \* the vector<ThreadTasks> the driver holds from get_tasks
    new_node,        \* the node the driver holds from allocate_new_node
    ai_call,         \* the last call made and what it returned
    ai_fault,        \* "none", or how the process ended
    iterations,      \* iterations of the driver's outer loop begun so far
    allocations      \* allocations made so far

aiVars ==
    <<ai_node, lanes, pending_depths, root, threads, new_node, ai_call, ai_fault,
      iterations, allocations, aiSetup>>

\* the state of the single-threaded manager, noir::NodeManager
VARIABLES
    noir_node,            \* slot -> Node (the elements of node_storage)
    memory,               \* NodeManager::memory
    node_cursor,          \* NodeManager::node_cursor
    depths,               \* NodeManager::depths, a sequence of NodeDepth
    transposition_table,  \* hash -> node (Null: no entry)
    driver,               \* where the caller stands in its loop
    turns,                \* calls of prepare_tree made so far
    noir_allocations,     \* allocations made so far
    noir_call,            \* the last call made and what it returned
    noir_fault,           \* "none", or how the process ended
    config,               \* NodeManager::config, as set through get_config()
    hash_modulus          \* the StateHash of the instantiation: s -> s % hash_modulus

\* what the caller fixes before the first call
noirSetup == <<config, hash_modulus>>

noirVars ==
    <<noir_node, memory, node_cursor, depths, transposition_table, driver,
      turns, noir_allocations, noir_call, noir_fault, noirSetup>>

\* the state of the manager that keeps the pruned flag in the state's first
\* word, node::NodeManager
VARIABLES
    node_manager,  \* its data members: [node, memory, node_cursor, depths, config]
    node_run       \* the caller: [driver, turns, allocations, call, fault]

nodeVars == <<node_manager, node_run>>

\* a noir::NodeMemory driven directly through allocate, deallocate and reset
VARIABLES
    pool,         \* the pool and the nodes of its node_storage: [node, memory, fault]
    pool_live,    \* the slots allocate returned that were not deallocated or reset since
    pool_freed,   \* the slots deallocated since the last reset and not reused, oldest first
    pool_issued,  \* every slot allocate ever returned
    pool_call     \* the last call: [op, ret, tick], tick alternating with every call

poolVars == <<pool, pool_live, pool_freed, pool_issued, pool_call>>

\* a thread::ThreadPool (src/thread.hpp), its workers and the thread that owns it
VARIABLES
    stop,          \* ThreadPool::stop
    task_queue,    \* ThreadPool::tasks, as the number of tasks queued
    active_tasks,  \* ThreadPool::active_tasks
    mtx,           \* ThreadPool::mtx: Null when free, or the worker holding it
    condition,     \* ThreadPool::condition: the workers blocked in wait
    worker_pc,     \* where each worker is in work_func
    owner_pc,      \* where the owning thread is
    joined,        \* the workers the destructor has joined
    enqueued       \* the calls of enqueue made

threadVars ==
    <<stop, task_queue, active_tasks, mtx, condition, worker_pc, owner_pc,
      joined, enqueued>>

libVars == <<poolVars, threadVars>>

vars == <<aiVars, noirVars, nodeVars, libVars>>

(***************************************************************************)
(* Node and NodeMemory of the parallel manager.  The operators work on a   *)
(* store [node, lanes, fault]: the slots, the lanes, and "none" or the way *)
(* the call ended the process ("ub": undefined behaviour, "abort":         *)
(* std::abort, "diverge": unbounded recursion over a cyclic link chain).   *)
(***************************************************************************)
ZeroNode ==
    [parent |-> Null, child |-> Null, sibling |-> Null,
     thread_id |-> 0, total_value |-> 0, state |-> 0]

EmptyMemory == [node_storage |-> <<>>, free_head |-> Null, free_count |-> 0]

Store(nd, ls) == [node |-> nd, lanes |-> ls, fault |-> "none"]

SlotsOf(ls) == UNION {SeqSet(ls[t].node_storage) : t \in DOMAIN ls}

\* NodeMemory::size of the parallel manager
NodeMemorySize(mem) == Len(mem.node_storage)

\* the sum of the loop of NodeMemoryLanes::is_limit_reached over lanes t, ...
RECURSIVE LanesTotal(_, _)
LanesTotal(ls, t) ==
    IF t \notin DOMAIN ls THEN 0
    ELSE NodeMemorySize(ls[t]) + LanesTotal(ls, t + 1)

\* NodeMemoryLanes::is_limit_reached
lanes_is_limit_reached(ls, limit) == LanesTotal(ls, 0) >= limit

\* the slot allocate and allocate_root take: the free head, else a new slot
NodeMemoryTake(st, t) ==
    LET mem == st.lanes[t] IN
    IF mem.free_head = Null
    THEN LET id == Cardinality(SlotsOf(st.lanes)) + 1 IN
         [st  |-> [st EXCEPT !.lanes[t].node_storage = Append(@, id)],
          ret |-> id]
    ELSE [st  |-> [st EXCEPT !.lanes[t].free_head = st.node[mem.free_head].parent,
                             !.lanes[t].free_count = @ - 1],
          ret |-> mem.free_head]

\* NodeMemory::allocate followed by NodeMemoryLanes::allocate's thread_id
LanesAllocate(st, t, parent) ==
    LET tk == NodeMemoryTake(st, t)
        r  == tk.ret
        n1 == [tk.st.node EXCEPT ![r].child = Null,
                                 ![r].sibling = Null,
                                 ![r].total_value = 0,
                                 ![r].parent = parent]
        n2 == IF n1[parent].child # Null
              THEN [n1 EXCEPT ![r].sibling = n1[parent].child]
              ELSE n1
        n3 == [n2 EXCEPT ![parent].child = r]
    IN  [st  |-> [tk.st EXCEPT !.node = [n3 EXCEPT ![r].thread_id = t]],
         ret |-> r]

\* NodeMemoryLanes::allocate_root: lane 0, thread_id left as the slot has it
LanesAllocateRoot(st) ==
    LET tk == NodeMemoryTake(st, 0)
        r  == tk.ret
    IN  [st  |-> [tk.st EXCEPT !.node[r].child = Null,
                               !.node[r].sibling = Null,
                               !.node[r].total_value = 0,
                               !.node[r].parent = Null],
         ret |-> r]

\* lanes[node->thread_id].deallocate(node); indexing lanes with the sentinel
\* (or any id that is no lane) is undefined behaviour
NodeMemoryDeallocate(st, n) ==
    LET t == st.node[n].thread_id IN
    IF st.fault # "none" THEN st
    ELSE IF t \notin DOMAIN st.lanes THEN [st EXCEPT !.fault = "ub"]
    ELSE [st EXCEPT !.node[n].parent = st.lanes[t].free_head,
                    !.node[n].thread_id = ThreadIdMax,
                    !.lanes[t].free_head = n,
                    !.lanes[t].free_count = @ + 1]

\* NodeMemoryLanes::deallocate: the children first, then the node; path holds
\* the nodes whose deallocation is in progress
RECURSIVE LanesDeallocate(_, _, _), DeallocateChildren(_, _, _)
LanesDeallocate(st, n, path) ==
    IF st.fault # "none" THEN st
    ELSE IF n \in path THEN [st EXCEPT !.fault = "diverge"]
    ELSE NodeMemoryDeallocate(
             DeallocateChildren(st, st.node[n].child, path \cup {n}), n)
DeallocateChildren(st, c, path) ==
    IF st.fault # "none" \/ c = Null THEN st
    ELSE LET st1 == LanesDeallocate(st, c, path)
         IN  DeallocateChildren(st1, st1.node[c].sibling, path)

\* the nodes a loop "for (c = first; c != nullptr; c = c->sibling)" visits
\* before it ends (loops = FALSE) or comes back to a node already visited
RECURSIVE SiblingChain(_, _, _)
SiblingChain(nd, c, acc) ==
    IF c = Null THEN [nodes |-> acc, loops |-> FALSE]
    ELSE IF c \in SeqSet(acc) THEN [nodes |-> acc, loops |-> TRUE]
    ELSE SiblingChain(nd, nd[c].sibling, Append(acc, c))

ChildList(nd, p) == SiblingChain(nd, nd[p].child, <<>>)

\* Node::sanity_check: "ok", "abort" when a node is missing from its parent's
\* child list, "diverge" when the walk never ends
RECURSIVE sanity_check(_, _, _)
sanity_check(nd, n, seen) ==
    IF nd[n].parent = Null THEN "ok"
    ELSE IF n \in seen THEN "diverge"
    ELSE LET cl == ChildList(nd, nd[n].parent) IN
         IF n \in SeqSet(cl.nodes) THEN sanity_check(nd, nd[n].parent, seen \cup {n})
         ELSE IF cl.loops THEN "diverge"
         ELSE "abort"

\* Node::award: adds value to the node and to every ancestor but the
\* parentless one; [node, fault]
RECURSIVE award(_, _, _, _)
award(nd, n, value, seen) ==
    IF nd[n].parent = Null THEN [node |-> nd, fault |-> "none"]
    ELSE IF n \in seen THEN [node |-> nd, fault |-> "diverge"]
    ELSE award([nd EXCEPT ![n].total_value = @ + value],
               nd[n].parent, value, seen \cup {n})

\* Node::get_first_parent: [ret, fault]; calling it on a null parent is
\* undefined behaviour
RECURSIVE get_first_parent(_, _, _)
get_first_parent(nd, n, seen) ==
    IF nd[n].parent # Null /\ nd[nd[n].parent].parent = Null
    THEN [ret |-> n, fault |-> "none"]
    ELSE IF nd[n].parent = Null THEN [ret |-> Null, fault |-> "ub"]
    ELSE IF n \in seen THEN [ret |-> Null, fault |-> "diverge"]
    ELSE get_first_parent(nd, nd[n].parent, seen \cup {n})

(***************************************************************************)
(* NodeTreeManager: private helpers.                                       *)
(***************************************************************************)
Depths == 0..CfgDepth

Hashes == {hash_func(s) : s \in States}

EmptyDepthTasks ==
    [tasks |-> EmptyBag, transposition_table |-> [h \in Hashes |-> <<>>]]

\* the lambda remove_orphans of cleanup_depth on a vector of nodes: an
\* element whose thread_id is the sentinel is overwritten by the last one
RECURSIVE remove_orphans(_, _, _)
remove_orphans(nd, vec, i) ==
    IF i > Len(vec) THEN vec
    ELSE IF nd[vec[i]].thread_id = ThreadIdMax
    THEN LET short == SubSeq(vec, 1, Len(vec) - 1) IN
         remove_orphans(nd,
                        IF i = Len(vec) THEN short
                        ELSE [short EXCEPT ![i] = vec[Len(vec)]],
                        i)
    ELSE remove_orphans(nd, vec, i + 1)

cleanup_depth(nd, dt) ==
    LET kept == {n \in DOMAIN nd : nd[n].thread_id # ThreadIdMax} IN
    [tasks |-> PQFilter(dt.tasks, kept),
     transposition_table |->
         [h \in Hashes |-> remove_orphans(nd, dt.transposition_table[h], 1)]]

cleanup_all_depths(nd, pd) == [d \in DOMAIN pd |-> cleanup_depth(nd, pd[d])]

\* the deepest depth with pending tasks, or -1
get_last_active_depth(pd) ==
    IF \A d \in DOMAIN pd : PQEmpty(pd[d].tasks) THEN -1
    ELSE CHOOSE d \in DOMAIN pd :
            /\ ~PQEmpty(pd[d].tasks)
            /\ \A e \in DOMAIN pd : e > d => PQEmpty(pd[e].tasks)

\* the nodes get_best_node may return (Null when nothing is pending)
get_best_node(pd) ==
    IF get_last_active_depth(pd) = -1 THEN {Null}
    ELSE {e.node : e \in PQTops(pd[get_last_active_depth(pd)].tasks)}

(***************************************************************************)
(* get_tasks.                                                              *)
(***************************************************************************)
\* the first thread with the greatest score (the scans use a strict >)
FirstMax(score) ==
    CHOOSE t \in DOMAIN score :
        /\ \A u \in DOMAIN score : score[u] <= score[t]
        /\ \A u \in DOMAIN score : u < t => score[u] < score[t]

get_free_count(ls) == [t \in DOMAIN ls |-> ls[t].free_count]

get_thread_with_most_free(free_counts) == FirstMax(free_counts)

find_best_thread(free_counts, thread_task_counts) ==
    FirstMax([t \in DOMAIN free_counts |-> free_counts[t] - thread_task_counts[t]])

\* the while loop of get_tasks from current_depth on: the set of
\* [pending, threads] it can end with
RECURSIVE GetTasksLoop(_, _, _, _, _, _)
GetTasksLoop(current_depth, current_thread, counts, pd, thr, free_counts) ==
    IF current_depth >= CfgDepth
    THEN {[pending |-> pd, threads |-> thr]}
    ELSE IF PQEmpty(pd[current_depth].tasks)
    THEN GetTasksLoop(current_depth + 1, current_thread, counts, pd, thr, free_counts)
    ELSE UNION {
        LET out     == [nodes |-> [i \in 1..Len(p.popped) |-> p.popped[i].node],
                        depth |-> current_depth]
            counts1 == [counts EXCEPT ![current_thread] = @ + Len(p.popped)]
            next    == IF counts1[current_thread] >= depth_task_size
                       THEN find_best_thread(free_counts, counts1)
                       ELSE current_thread
        IN  GetTasksLoop(current_depth + 1, next, counts1,
                         [pd EXCEPT ![current_depth].tasks = p.rest],
                         [thr EXCEPT ![current_thread] = Append(@, out)],
                         free_counts)
        : p \in PQPopSeqs(pd[current_depth].tasks, depth_task_size)}

\* the vector returned: the threads that got tasks, thread_id kept
TrimThreads(thr) ==
    SelectSeq([i \in 1..ThreadCount |-> [tasks |-> thr[i - 1], thread_id |-> i - 1]],
              LAMBDA x : x.tasks # <<>>)

get_tasks_results(pd, ls) ==
    LET free_counts == get_free_count(ls) IN
    GetTasksLoop(0, get_thread_with_most_free(free_counts),
                 [t \in DOMAIN ls |-> 0], pd,
                 [t \in DOMAIN ls |-> <<>>], free_counts)

\* the nodes a vector<ThreadTasks> hands out
IssuedNodes(ts) ==
    UNION {UNION {SeqSet(ts[i].tasks[j].nodes) : j \in 1..Len(ts[i].tasks)} :
              i \in 1..Len(ts)}

(***************************************************************************)
(* The public operations of NodeTreeManager, as the driver loops of        *)
(* node_test_password.cpp and node_test_sudoku.cpp call them: try_advance  *)
(* opens an iteration, and reset follows when it returned false; then any  *)
(* number of rounds, each get_tasks, the batches walked in order with any  *)
(* number of children for each parent, and finalize; a node from           *)
(* allocate_new_node is given its state and pushed before the next call.   *)
(***************************************************************************)
Call(op, ok) == [op |-> op, ok |-> ok]

\* the manager as constructed
AiStart ==
    /\ ai_node = [i \in 1..MaxAllocations |-> ZeroNode]
    /\ lanes = << >>
    /\ pending_depths = << >>
    /\ root = Null
    /\ threads = << >>
    /\ new_node = [node |-> Null, depth |-> 0]
    /\ ai_call = Call("none", FALSE)
    /\ ai_fault = "none"
    /\ iterations = 0
    /\ allocations = 0

AiInit ==
    /\ AiStart
    /\ collision_always = FALSE
    /\ depth_task_size = CfgDepthTaskSize

AiIdle == ai_fault = "none" /\ new_node.node = Null

\* a call that ends the process: nothing of the manager is observed after it
AiFault(op, fault) ==
    /\ ai_fault' = fault
    /\ ai_call' = Call(op, FALSE)
    /\ UNCHANGED <<ai_node, lanes, pending_depths, root, new_node, iterations,
                   allocations>>

\* reset(root_state, thread_count), called when try_advance returned false
Reset(root_state) ==
    /\ AiIdle
    /\ UNCHANGED <<noirVars, nodeVars, aiSetup, libVars>>
    /\ ai_call.op = "try_advance" /\ ~ai_call.ok
    /\ iterations < MaxIterations
    /\ allocations < MaxAllocations
    /\ LET st0 == Store(ai_node, lanes)
           \* NodeMemoryLanes::reset
           st1 == IF root = Null
                  THEN [st0 EXCEPT !.lanes = [t \in 0..(ThreadCount - 1) |-> EmptyMemory]]
                  ELSE LanesDeallocate(st0, root, {})
       IN  IF st1.fault # "none"
           THEN AiFault("reset", st1.fault) /\ UNCHANGED threads
           ELSE LET al == LanesAllocateRoot(st1)
                    r  == al.ret
                IN  /\ ai_node' = [al.st.node EXCEPT ![r].state = root_state]
                    /\ lanes' = al.st.lanes
                    /\ root' = r
                    /\ pending_depths' =
                           [d \in Depths |->
                               IF d = 0
                               THEN [EmptyDepthTasks EXCEPT
                                        !.tasks = PQPush(EmptyBag, NodeValue(r, 0))]
                               ELSE EmptyDepthTasks]
                    /\ threads' = << >>
                    /\ ai_call' = Call("reset", TRUE)
                    /\ iterations' = iterations + 1
                    /\ allocations' = allocations + 1
                    /\ UNCHANGED <<new_node, ai_fault>>

\* get_tasks()
GetTasks ==
    /\ AiIdle
    /\ UNCHANGED <<noirVars, nodeVars, aiSetup, libVars>>
    /\ root # Null
    /\ ai_call.op \in {"reset", "try_advance", "finalize"}
    /\ ai_call # Call("try_advance", FALSE)
    /\ \E r \in get_tasks_results(pending_depths, lanes) :
          /\ pending_depths' = r.pending
          /\ threads' = TrimThreads(r.threads)
    /\ ai_call' = Call("get_tasks", TRUE)
    /\ UNCHANGED <<ai_node, lanes, root, new_node, ai_fault, iterations, allocations>>

\* what is left of the batches once the driver's loops stand at node k of
\* task j of thread i
RestOfThreads(ts, i, j, k) ==
    LET t  == ts[i]
        tk == t.tasks[j]
        tk1 == [tk EXCEPT !.nodes = SubSeq(tk.nodes, k, Len(tk.nodes))]
        t1 == [t EXCEPT !.tasks = <<tk1>> \o SubSeq(t.tasks, j + 1, Len(t.tasks))]
    IN  <<t1>> \o SubSeq(ts, i + 1, Len(ts))

\* allocate_new_node(thread_id, parent) for a parent of the current batches,
\* and the driver's write of the child's state
AllocateNewNode(state) ==
    /\ AiIdle
    /\ UNCHANGED <<noirVars, nodeVars, aiSetup, libVars>>
    /\ allocations < MaxAllocations
    /\ \E i \in 1..Len(threads) : \E j \in 1..Len(threads[i].tasks) :
       \E k \in 1..Len(threads[i].tasks[j].nodes) :
          LET thread_id == threads[i].thread_id
              parent    == threads[i].tasks[j].nodes[k]
              al        == LanesAllocate(Store(ai_node, lanes), thread_id, parent)
              checked   == sanity_check(al.st.node, al.ret, {})
          IN  IF checked # "ok"
              THEN AiFault("allocate_new_node", checked) /\ UNCHANGED threads
              ELSE /\ ai_node' = [al.st.node EXCEPT ![al.ret].state = state]
                   /\ lanes' = al.st.lanes
                   /\ new_node' = [node |-> al.ret,
                                   depth |-> threads[i].tasks[j].depth + 1]
                   /\ threads' = RestOfThreads(threads, i, j, k)
                   /\ ai_call' = Call("allocate_new_node", TRUE)
                   /\ allocations' = allocations + 1
                   /\ UNCHANGED <<ai_fault, iterations>>
    /\ UNCHANGED <<pending_depths, root>>

\* push_new_node(depth, node, value)
PushNewNode(value) ==
    /\ ai_fault = "none"
    /\ UNCHANGED <<noirVars, nodeVars, aiSetup, libVars>>
    /\ new_node.node # Null
    /\ LET depth  == new_node.depth
           node   == new_node.node
           hash   == hash_func(ai_node[node].state)
           bucket == pending_depths[depth].transposition_table[hash]
       IN  IF \E x \in 1..Len(bucket) :
                  collision_func(ai_node[bucket[x]].state, ai_node[node].state)
           THEN /\ ai_call' = Call("push_new_node", FALSE)
                /\ UNCHANGED pending_depths
           ELSE /\ pending_depths' =
                      [pending_depths EXCEPT
                          ![depth].transposition_table[hash] = Append(bucket, node),
                          ![depth].tasks = PQPush(@, NodeValue(node, value))]
                /\ ai_call' = Call("push_new_node", TRUE)
    /\ new_node' = [node |-> Null, depth |-> 0]
    /\ UNCHANGED <<ai_node, lanes, root, threads, ai_fault, iterations, allocations>>

\* the awards of finalize: the k-th popped leaf is awarded size - k
RECURSIVE AwardAll(_, _, _)
AwardAll(aw, popped, award_size) ==
    IF popped = <<>> \/ aw.fault # "none" THEN aw
    ELSE AwardAll(award(aw.node, Head(popped).node, award_size, {}),
                  Tail(popped), award_size - 1)

\* the walk of finalize to the first node that has not exactly one child
RECURSIVE PruneCursor(_, _, _)
PruneCursor(nd, cursor, seen) ==
    IF cursor \in seen THEN [ret |-> Null, fault |-> "diverge"]
    ELSE IF nd[cursor].child # Null /\ nd[nd[cursor].child].sibling = Null
    THEN PruneCursor(nd, nd[cursor].child, seen \cup {cursor})
    ELSE [ret |-> cursor, fault |-> "none"]

\* the orders in which frontier_nodes (NodePruneCompare: the lowest
\* total_value on top) can be emptied
RECURSIVE PruneOrders(_, _)
PruneOrders(nd, S) ==
    IF S = {} THEN {<<>>}
    ELSE UNION {{<<n>> \o r : r \in PruneOrders(nd, S \ {n})} :
                   n \in {m \in S : \A o \in S : nd[m].total_value <= nd[o].total_value}}

RECURSIVE DeallocateAll(_, _)
DeallocateAll(st, seq) ==
    IF seq = <<>> THEN st
    ELSE DeallocateAll(LanesDeallocate(st, Head(seq), {}), Tail(seq))

\* "top->sibling = cursor->child; cursor->child = top" for each node of seq
RECURSIVE Relink(_, _, _)
Relink(nd, cursor, seq) ==
    IF seq = <<>> THEN nd
    ELSE Relink([nd EXCEPT ![Head(seq)].sibling = nd[cursor].child,
                           ![cursor].child = Head(seq)],
                cursor, Tail(seq))

\* finalize()
Finalize ==
    /\ AiIdle
    /\ UNCHANGED <<noirVars, nodeVars, aiSetup, libVars>>
    /\ root # Null
    /\ ai_call.op \in {"get_tasks", "push_new_node"}
    /\ threads' = << >>
    /\ UNCHANGED <<root, new_node, iterations, allocations>>
    /\ LET last_depth_tasks == pending_depths[CfgDepth].tasks IN
       IF PQEmpty(last_depth_tasks)
       THEN /\ ai_call' = Call("finalize", FALSE)
            /\ UNCHANGED <<ai_node, lanes, pending_depths, ai_fault>>
       ELSE \E p \in PQPopSeqs(last_depth_tasks, CfgAwardWidth) :
            LET aw == AwardAll([node |-> ai_node, fault |-> "none"],
                               p.popped, Len(p.popped))
                cu == PruneCursor(aw.node, root, {})
                cl == ChildList(aw.node, cu.ret)
            IN  /\ \A n \in 1..MaxAllocations : aw.node[n].total_value <= MaxTotalValue
                /\ IF aw.fault # "none" THEN AiFault("finalize", aw.fault)
                   ELSE IF cu.fault # "none" THEN AiFault("finalize", cu.fault)
                   ELSE IF aw.node[cu.ret].child = Null
                   THEN /\ ai_node' = aw.node
                        /\ ai_call' = Call("finalize", FALSE)
                        /\ UNCHANGED <<lanes, pending_depths, ai_fault>>
                   ELSE IF cl.loops THEN AiFault("finalize", "diverge")
                   ELSE \E order \in PruneOrders(aw.node, SeqSet(cl.nodes)) :
                        LET size   == Len(order)
                            target == IF CfgPruneWidth > size THEN 1 ELSE CfgPruneWidth
                            worst  == SubSeq(order, 1, size - target)
                            kept   == SubSeq(order, size - target + 1, size)
                            st1    == DeallocateAll(Store(aw.node, lanes), worst)
                            nd2    == Relink([st1.node EXCEPT ![cu.ret].child = Null],
                                             cu.ret, kept)
                        IN  IF st1.fault # "none" THEN AiFault("finalize", st1.fault)
                            ELSE /\ ai_node' = nd2
                                 /\ lanes' = st1.lanes
                                 /\ pending_depths' = cleanup_all_depths(nd2, pending_depths)
                                 /\ ai_call' = Call("finalize", TRUE)
                                 /\ UNCHANGED ai_fault

\* get_best_state() const: what a call can end as, [ret, fault] with ret the
\* node whose state is returned (Null for nullptr)
get_best_state(nd, pd) ==
    {IF best_node = Null THEN [ret |-> Null, fault |-> "none"]
     ELSE get_first_parent(nd, best_node, {}) : best_node \in get_best_node(pd)}

\* the loop of try_advance over the root's children: [st, best_child]
RECURSIVE AdvanceScan(_, _, _, _)
AdvanceScan(st, child, best_child, seen) ==
    IF st.fault # "none" \/ child = Null THEN [st |-> st, best_child |-> best_child]
    ELSE IF child \in seen
    THEN [st |-> [st EXCEPT !.fault = "diverge"], best_child |-> best_child]
    ELSE IF best_child = Null
            \/ st.node[child].total_value > st.node[best_child].total_value
    THEN LET st1 == IF best_child # Null THEN LanesDeallocate(st, best_child, {})
                    ELSE st
         IN  AdvanceScan(st1, st1.node[child].sibling, child, seen \cup {child})
    ELSE AdvanceScan(st, st.node[child].sibling, best_child, seen \cup {child})

\* try_advance without the test of the root's child list
NoRoot(nd, r) == r = Null

\* the test of try_advance: there is nothing to advance to
NothingToAdvance(nd, r) == r = Null \/ nd[r].child = Null

\* try_advance()
TryAdvance ==
    /\ AiIdle
    /\ UNCHANGED <<noirVars, nodeVars, aiSetup, libVars>>
    /\ ai_call.op \in {"none", "reset", "finalize", "try_advance"}
    /\ ai_call # Call("try_advance", FALSE)
    /\ threads' = << >>
    /\ UNCHANGED <<new_node, allocations>>
    /\ IF NothingToAdvance(ai_node, root)
       THEN /\ ai_call' = Call("try_advance", FALSE)
            /\ UNCHANGED <<ai_node, lanes, pending_depths, root, ai_fault, iterations>>
       ELSE LET sc  == AdvanceScan(Store(ai_node, lanes), ai_node[root].child, Null, {})
                st1 == [sc.st EXCEPT !.node[root].child = Null]
                st2 == LanesDeallocate(st1, root, {})
            IN  IF st2.fault # "none" THEN AiFault("try_advance", st2.fault)
                ELSE /\ iterations < MaxIterations
                     /\ iterations' = iterations + 1
                     /\ ai_node' = [st2.node EXCEPT ![sc.best_child].parent = Null]
                     /\ lanes' = st2.lanes
                     /\ root' = sc.best_child
                     /\ pending_depths' =
                            [d \in Depths |->
                                IF d < CfgDepth THEN pending_depths[d + 1]
                                ELSE EmptyDepthTasks]
                     /\ ai_call' = Call("try_advance", TRUE)
                     /\ UNCHANGED ai_fault

ParNext ==
    \/ \E s \in States : Reset(s)
    \/ GetTasks
    \/ \E s \in States : AllocateNewNode(s)
    \/ \E v \in Values : PushNewNode(v)
    \/ Finalize
    \/ TryAdvance

(***************************************************************************)
(* The single-threaded manager, noir::NodeManager                          *)
(* (src/include/node_manager.hpp).                                         *)
(***************************************************************************)
\* states handed to the single-threaded manager are 1..NoirNumStates
NoirNumStates == 4
\* NodeTreeConfig of the single-threaded manager, as set through get_config()
NoirDepth == 3
NoirPruneDepthLimit == 1
NoirNodeLimit == 5
\* the caller's StateHash gives NoirHashModulus values
NoirHashModulus == 4
\* calls of prepare_tree the caller makes
MaxTurns == 2
\* allocations the caller's turns make in all; node_storage grows no further
MaxNoirAllocations == 5
\* a deeper set-up: a tree one level deeper, a node limit of six, a StateHash
\* with a value for each of the six allocations its caller's turns make
DeepDepth == 4
DeepNodeLimit == 6
DeepHashModulus == 7
DeepAllocations == 6

\* std::numeric_limits<size_t>::max(), written as the largest number TLC has
SizeMax == 2147483647

NoirStates == 1..NoirNumStates

\* StateHash supplied by the caller: two states hash_modulus apart share a hash
state_hash(s) == s % hash_modulus

\* StateEqual supplied by the caller
state_equal(a, b) == a = b

\* the hashes of the set-up whose StateHash has the most values
NoirHashes == 0..(DeepHashModulus - 1)

\* the allocations the caller's turns make in all under the set-up in force
AllocationCap ==
    IF config.depth = DeepDepth THEN DeepAllocations ELSE MaxNoirAllocations

NodeTreeConfig(depth, prune_depth_limit, node_limit) ==
    [depth |-> depth, prune_depth_limit |-> prune_depth_limit,
     node_limit |-> node_limit]

NoirZeroNode == [parent |-> Null, state |-> 0, pruned |-> FALSE]

NoirStore(nd, mem) == [node |-> nd, memory |-> mem, fault |-> "none"]

\* NodeMemory::allocate_raw and allocate
NoirAllocate(st, parent) ==
    LET mem == st.memory
        raw == IF mem.free_head # Null
               THEN [memory |-> [mem EXCEPT !.free_head = st.node[mem.free_head].parent,
                                            !.free_count = @ - 1],
                     ret |-> mem.free_head]
               ELSE IF mem.cursor < mem.size
               THEN [memory |-> [mem EXCEPT !.cursor = @ + 1, !.free_count = @ - 1],
                     ret |-> mem.cursor + 1]
               ELSE [memory |-> [mem EXCEPT !.size = @ + 1, !.cursor = @ + 1],
                     ret |-> mem.size + 1]
    IN  [st  |-> [st EXCEPT !.memory = raw.memory,
                            !.node[raw.ret].pruned = FALSE,
                            !.node[raw.ret].parent = parent],
         ret |-> raw.ret]

\* a deallocate that leaves free_count alone; the node count property must
\* tell it from NodeMemory::deallocate
NoirDeallocateUncounted(st, n) ==
    [st EXCEPT !.node[n].pruned = TRUE,
               !.node[n].parent = st.memory.free_head,
               !.memory.free_head = n]

\* NodeMemory::deallocate
NoirDeallocate(st, n) ==
    [st EXCEPT !.node[n].pruned = TRUE,
               !.node[n].parent = st.memory.free_head,
               !.memory.free_head = n,
               !.memory.free_count = @ + 1]

\* NodeMemory::reset
NoirMemoryReset(mem) ==
    [mem EXCEPT !.free_head = Null, !.cursor = 0, !.free_count = mem.size]

\* NodeMemory::size
MemorySize(mem) == mem.size - mem.free_count

is_limit_reached(mem, limit) == MemorySize(mem) >= limit

\* Node::get_first_parent (the single-threaded one returns nullptr for a
\* parentless node)
RECURSIVE noir_get_first_parent(_, _)
noir_get_first_parent(nd, n) ==
    IF nd[n].parent = Null THEN Null
    ELSE IF nd[nd[n].parent].parent = Null THEN n
    ELSE noir_get_first_parent(nd, nd[n].parent)

\* Node::get_parent_at: [ret, fault]; the assert fails on a null parent
RECURSIVE get_parent_at(_, _, _)
get_parent_at(nd, node, n) ==
    IF n = 0 THEN [ret |-> node, fault |-> "none"]
    ELSE IF nd[node].parent = Null THEN [ret |-> Null, fault |-> "abort"]
    ELSE get_parent_at(nd, nd[node].parent, n - 1)

(***************************************************************************)
(* NodeDepth.  export_container hands out the heap's array, whose order    *)
(* is the library's; it is taken in slot order here: another order changes *)
(* only the order of the free list, that is, which free slot a later       *)
(* allocation names.                                                       *)
(***************************************************************************)
EmptyNodeDepth == [unsearched |-> EmptyBag, searched |-> <<>>]

DepthSize(d) == PQSize(d.unsearched) + Len(d.searched)

DepthEmpty(d) == PQEmpty(d.unsearched) /\ d.searched = <<>>

RECURSIVE SortedNodes(_)
SortedNodes(S) ==
    IF S = {} THEN <<>>
    ELSE LET m == CHOOSE x \in S : \A y \in S : x <= y
         IN  <<m>> \o SortedNodes(S \ {m})

export_container(q) == SortedNodes({e.node : e \in BagToSet(q)})

\* import_container of the nodes kept out of the entries of q
import_container(q, kept) ==
    PQFilter(q, SeqSet(kept))

SwapRemove(vec, i) ==
    LET short == SubSeq(vec, 1, Len(vec) - 1) IN
    IF i = Len(vec) THEN short ELSE [short EXCEPT ![i] = vec[Len(vec)]]

\* the lambda remove_orphans of NodeDepth::cleanup: [vec, st]
RECURSIVE RemoveOrphans(_, _, _)
RemoveOrphans(vec, i, st) ==
    IF st.fault # "none" \/ i > Len(vec) THEN [vec |-> vec, st |-> st]
    ELSE IF st.node[vec[i]].parent = Null
    THEN [vec |-> vec, st |-> [st EXCEPT !.fault = "ub"]]
    ELSE IF st.node[st.node[vec[i]].parent].pruned
    THEN RemoveOrphans(SwapRemove(vec, i), i, NoirDeallocate(st, vec[i]))
    ELSE RemoveOrphans(vec, i + 1, st)

\* a remove_losers that removes nobody; the pruning property must tell it
\* from the lambda of NodeDepth::filter
RemoveNoLosers(vec, i, st, survivor) == [vec |-> vec, st |-> st]

\* the lambda remove_losers of NodeDepth::filter: [vec, st]
RECURSIVE RemoveLosers(_, _, _, _)
RemoveLosers(vec, i, st, survivor) ==
    IF i > Len(vec) THEN [vec |-> vec, st |-> st]
    ELSE IF vec[i] # survivor
    THEN RemoveLosers(SwapRemove(vec, i), i, NoirDeallocate(st, vec[i]), survivor)
    ELSE RemoveLosers(vec, i + 1, st, survivor)

\* a cleanup that sweeps nothing; the parent property must tell it from
\* NodeDepth::cleanup
NodeDepthCleanupNothing(d, st) == [depth |-> d, st |-> st]

\* NodeDepth::cleanup: [depth, st]
NodeDepthCleanup(d, st) ==
    IF DepthEmpty(d) THEN [depth |-> d, st |-> st]
    ELSE LET u == IF PQEmpty(d.unsearched)
                  THEN [vec |-> <<>>, st |-> st]
                  ELSE RemoveOrphans(export_container(d.unsearched), 1, st)
             r == RemoveOrphans(d.searched, 1, u.st)
         IN  [depth |-> [unsearched |-> import_container(d.unsearched, u.vec),
                         searched |-> r.vec],
              st |-> r.st]

\* a filter that removes nobody; the shift property must tell it from
\* NodeDepth::filter
NodeDepthFilterNothing(d, survivor, st) == [depth |-> d, st |-> st]

\* NodeDepth::filter: [depth, st]
NodeDepthFilter(d, survivor, st) ==
    IF DepthEmpty(d) THEN [depth |-> d, st |-> st]
    ELSE LET u == IF PQEmpty(d.unsearched)
                  THEN [vec |-> <<>>, st |-> st]
                  ELSE RemoveLosers(export_container(d.unsearched), 1, st, survivor)
             r == RemoveLosers(d.searched, 1, u.st, survivor)
         IN  [depth |-> [unsearched |-> import_container(d.unsearched, u.vec),
                         searched |-> r.vec],
              st |-> r.st]

\* NodeDepth::make_root: the node whose parent is cleared
make_root(d) ==
    IF d.searched # <<>> THEN d.searched[1]
    ELSE (CHOOSE e \in PQTops(d.unsearched) : TRUE).node

(***************************************************************************)
(* NodeManager's private operations.  depths is a sequence: depths[i + 1]  *)
(* is the program's depths[i].                                             *)
(***************************************************************************)
get_first_active_depth_index(ds) ==
    LET active == {i \in 0..(Len(ds) - 1) : DepthSize(ds[i + 1]) > 1} IN
    IF active = {} THEN SizeMax
    ELSE CHOOSE i \in active : \A j \in active : i <= j

get_last_active_depth_index(ds) ==
    LET active == {i \in 0..(Len(ds) - 1) : ~DepthEmpty(ds[i + 1])} IN
    IF active = {} THEN SizeMax
    ELSE CHOOSE i \in active : \A j \in active : i >= j

\* NodeManager::get_best_node: the nodes top() may give, or {Null}
noir_get_best_node(ds) ==
    LET index == get_last_active_depth_index(ds) IN
    IF index = SizeMax THEN {Null}
    ELSE IF PQEmpty(ds[index + 1].unsearched) THEN {Null}
    ELSE {e.node : e \in PQTops(ds[index + 1].unsearched)}

\* NodeManager::get_root: [ret, fault]
get_root(ds) ==
    LET searched_vec == ds[1].searched IN
    IF searched_vec = <<>> THEN [ret |-> Null, fault |-> "none"]
    ELSE IF Len(searched_vec) # 1 THEN [ret |-> Null, fault |-> "abort"]
    ELSE [ret |-> searched_vec[1], fault |-> "none"]

\* the first loop of NodeManager::cleanup: [depths, st]
RECURSIVE CleanupDepths(_, _, _, _)
CleanupDepths(ds, i, end, st) ==
    IF i >= end \/ st.fault # "none" THEN [depths |-> ds, st |-> st]
    ELSE LET c == NodeDepthCleanup(ds[i + 1], st)
         IN  CleanupDepths([ds EXCEPT ![i + 1] = c.depth], i + 1, end, c.st)

\* a second loop that stops after the first entry it erases; the idempotence
\* of the sweep must tell it from the loop of NodeManager::cleanup
PurgeOneEntry(tt, nd) ==
    LET stale == {h \in DOMAIN tt : tt[h] # Null /\ nd[tt[h]].pruned} IN
    IF stale = {} THEN tt
    ELSE [tt EXCEPT ![CHOOSE h \in stale : \A g \in stale : h <= g] = Null]

\* the second loop of NodeManager::cleanup
PurgeTable(tt, nd) ==
    [h \in DOMAIN tt |-> IF tt[h] # Null /\ nd[tt[h]].pruned THEN Null ELSE tt[h]]

\* NodeManager::cleanup: [depths, tt, st]
noir_cleanup(ds, start, end, tt, st) ==
    LET c == CleanupDepths(ds, start, end, st)
    IN  [depths |-> c.depths, tt |-> PurgeTable(tt, c.st.node), st |-> c.st]

PruneResult(ret, ds, tt, st) == [ret |-> ret, depths |-> ds, tt |-> tt, st |-> st]

\* lines 309-315 of NodeManager::prune, from the node top() gave
PruneFrom(best_node, first, last, ds, tt, st) ==
    LET survivor == get_parent_at(st.node, best_node, last - first) IN
    IF survivor.fault # "none"
    THEN PruneResult(FALSE, ds, tt, [st EXCEPT !.fault = survivor.fault])
    ELSE LET f == NodeDepthFilter(ds[first + 1], survivor.ret, st)
             c == noir_cleanup([ds EXCEPT ![first + 1] = f.depth],
                               first, last + 1, tt, f.st)
         IN  PruneResult(TRUE, c.depths, c.tt, c.st)

\* NodeManager::prune: the outcomes.  top() of an empty heap is undefined:
\* the process ends or any slot of the pool comes back as the best node.
prune(ds, tt, st) ==
    LET first == get_first_active_depth_index(ds)
        last == get_last_active_depth_index(ds)
    IN  IF config.prune_depth_limit = 0 THEN {PruneResult(FALSE, ds, tt, st)}
        ELSE IF first > config.prune_depth_limit
        THEN {PruneResult(FALSE, ds, tt, st)}
        ELSE IF first = last THEN {PruneResult(FALSE, ds, tt, st)}
        ELSE IF last = SizeMax
        THEN {PruneResult(FALSE, ds, tt, [st EXCEPT !.fault = "throw"])}
        ELSE IF PQEmpty(ds[last + 1].unsearched)
        THEN {PruneResult(FALSE, ds, tt, [st EXCEPT !.fault = "ub"])}
             \cup {PruneFrom(n, first, last, ds, tt, st) : n \in 1..st.memory.size}
        ELSE {PruneFrom(e.node, first, last, ds, tt, st) :
                  e \in PQTops(ds[last + 1].unsearched)}

\* NodeManager::increment_depth_counter
increment_depth_counter(depth, size) ==
    IF depth + 1 >= size - 1 THEN 0 ELSE depth + 1

\* the loop of NodeManager::get_task: [check_count, depth]
RECURSIVE ScanDepths(_, _, _)
ScanDepths(check_count, depth, ds) ==
    IF check_count # Len(ds) /\ PQEmpty(ds[depth + 1].unsearched)
    THEN ScanDepths(check_count + 1, increment_depth_counter(depth, Len(ds)), ds)
    ELSE [check_count |-> check_count, depth |-> depth]

\* NodeManager::get_result: the outcomes [ret, fault]; ret is the node whose
\* state is pointed to
get_result(nd, ds) ==
    LET last_depth_index == get_last_active_depth_index(ds) IN
    IF last_depth_index = SizeMax THEN {[ret |-> Null, fault |-> "ub"]}
    ELSE IF PQEmpty(ds[last_depth_index + 1].unsearched)
    THEN {[ret |-> Null, fault |-> "none"]}
    ELSE {IF noir_get_first_parent(nd, e.node) = Null
          THEN [ret |-> Null, fault |-> "ub"]
          ELSE [ret |-> noir_get_first_parent(nd, e.node), fault |-> "none"] :
              e \in PQTops(ds[last_depth_index + 1].unsearched)}

\* NodeManager::get_total_node_count
get_total_node_count(mem) == MemorySize(mem)

(***************************************************************************)
(* The public operations of noir::NodeManager, called in the order of the  *)
(* caller's loop: prepare_tree opens a turn; then get_task, and for the     *)
(* task it gave, get_new_state, verify_state and, when that held,          *)
(* report_result, for each child, and increment_depth_counter after the    *)
(* task; the turn ends when get_task gives nothing, or earlier.  get_task   *)
(* may also be the first call made on the manager.                         *)
(***************************************************************************)
EmptyTable == [h \in NoirHashes |-> Null]

\* the manager as constructed
NoirStart ==
    /\ noir_node = [n \in 1..DeepAllocations |-> NoirZeroNode]
    /\ memory = [size |-> 0, free_head |-> Null, cursor |-> 0, free_count |-> 0]
    /\ node_cursor = [cursor |-> Null, allocated_node |-> Null, depth |-> 0]
    /\ depths = << >>
    /\ transposition_table = EmptyTable
    /\ driver = "new"
    /\ turns = 0
    /\ noir_allocations = 0
    /\ noir_call = Call("none", FALSE)
    /\ noir_fault = "none"

NoirInit ==
    /\ NoirStart
    /\ config = NodeTreeConfig(NoirDepth, NoirPruneDepthLimit, NoirNodeLimit)
    /\ hash_modulus = NoirHashModulus

\* other set-ups of the caller: a node limit the fan-out of one task exceeds,
\* the default lineage-depth limit, a node limit of nothing and one of a
\* single node, a StateHash under which unequal states collide, and a tree
\* of depth 0
LowNodeLimit == 4
DefaultPruneDepthLimit == 0
NoNodeLimit == 0
LimitOfOne == 1
CollidingHashModulus == 2
NoDepth == 0

NoirSetups ==
    {<<NodeTreeConfig(NoirDepth, NoirPruneDepthLimit, LowNodeLimit), NoirHashModulus>>,
     <<NodeTreeConfig(NoirDepth, DefaultPruneDepthLimit, LowNodeLimit), NoirHashModulus>>,
     <<NodeTreeConfig(NoirDepth, NoirPruneDepthLimit, NoNodeLimit), NoirHashModulus>>,
     <<NodeTreeConfig(NoirDepth, NoirPruneDepthLimit, LimitOfOne), NoirHashModulus>>,
     <<NodeTreeConfig(NoirDepth, NoirPruneDepthLimit, NoirNodeLimit),
       CollidingHashModulus>>,
     <<NodeTreeConfig(NoDepth, NoirPruneDepthLimit, NoirNodeLimit), NoirHashModulus>>}

NoirSetupInit ==
    /\ NoirStart
    /\ \E setup \in NoirSetups :
          /\ config = setup[1]
          /\ hash_modulus = setup[2]

\* a call that ends the process
NoirFault(op, fault) ==
    /\ noir_fault' = fault
    /\ noir_call' = Call(op, FALSE)
    /\ UNCHANGED <<noir_node, memory, node_cursor, depths, transposition_table,
                   driver, noir_allocations>>

\* NodeManager::reset
NoirReset(current_state) ==
    LET a == NoirAllocate(NoirStore(noir_node, NoirMemoryReset(memory)), Null)
    IN  /\ noir_allocations < AllocationCap
        /\ noir_allocations' = noir_allocations + 1
        /\ noir_node' = [a.st.node EXCEPT ![a.ret].state = current_state]
        /\ memory' = a.st.memory
        /\ transposition_table' = EmptyTable
        /\ depths' = [i \in 1..(config.depth + 1) |->
                         IF i = 1
                         THEN [EmptyNodeDepth EXCEPT
                                  !.unsearched = PQPush(EmptyBag, NodeValue(a.ret, 0))]
                         ELSE EmptyNodeDepth]

\* lines 363-370 of NodeManager::prepare_tree
NoirShift(tree_root, best_parent) ==
    LET st1 == NoirDeallocate(NoirStore(noir_node, memory), tree_root)
        shifted == [i \in 1..Len(depths) |->
                       IF i < Len(depths) THEN depths[i + 1] ELSE EmptyNodeDepth]
        f == NodeDepthFilter(shifted[1], best_parent, st1)
    IN  IF DepthSize(f.depth) # 1
        THEN NoirFault("prepare_tree", "abort")
        ELSE LET st2 == [f.st EXCEPT !.node[make_root(f.depth)].parent = Null]
                 c == noir_cleanup([shifted EXCEPT ![1] = f.depth], 1,
                                   Len(depths) - 1, transposition_table, st2)
             IN  IF c.st.fault # "none"
                 THEN NoirFault("prepare_tree", c.st.fault)
                 ELSE /\ noir_node' = c.st.node
                      /\ memory' = c.st.memory
                      /\ depths' = c.depths
                      /\ transposition_table' = c.tt
                      /\ noir_call' = Call("prepare_tree", TRUE)
                      /\ driver' = "idle"
                      /\ UNCHANGED <<node_cursor, noir_allocations, noir_fault>>

\* NodeManager::prepare_tree; the call is recorded with ok = TRUE when the
\* tree was kept and shifted, FALSE when it was reset
PrepareTree(current_state) ==
    /\ noir_fault = "none"
    /\ driver \in {"new", "idle", "done"}
    /\ turns < MaxTurns
    /\ turns' = turns + 1
    /\ UNCHANGED <<aiVars, nodeVars, noirSetup, libVars>>
    /\ LET DoReset == /\ NoirReset(current_state)
                      /\ noir_call' = Call("prepare_tree", FALSE)
                      /\ driver' = "idle"
                      /\ UNCHANGED <<node_cursor, noir_fault>>
       IN  IF Len(depths) <= config.depth THEN DoReset
           ELSE IF get_root(depths).fault # "none"
           THEN NoirFault("prepare_tree", get_root(depths).fault)
           ELSE IF get_root(depths).ret = Null THEN DoReset
           ELSE \E best_leaf \in noir_get_best_node(depths) :
                   IF best_leaf = Null THEN DoReset
                   ELSE LET best_parent == noir_get_first_parent(noir_node, best_leaf)
                        IN  IF best_parent = Null
                            THEN NoirFault("prepare_tree", "ub")
                            ELSE IF ~state_equal(noir_node[best_parent].state,
                                                 current_state)
                            THEN DoReset
                            ELSE NoirShift(get_root(depths).ret, best_parent)

\* NodeManager::increment_depth_counter
IncrementDepthCounter ==
    /\ noir_fault = "none"
    /\ driver = "task"
    /\ UNCHANGED <<aiVars, nodeVars, noirSetup, turns, noir_allocations, libVars>>
    /\ node_cursor' = [node_cursor EXCEPT
                          !.depth = increment_depth_counter(@, Len(depths))]
    /\ noir_call' = Call("increment_depth_counter", TRUE)
    /\ driver' = "idle"
    /\ UNCHANGED <<noir_node, memory, depths, transposition_table, noir_fault>>

\* lines 386-397 of NodeManager::get_task, on the tree prune left
GetTaskScan(ds) ==
    LET scan == ScanDepths(0, node_cursor.depth, ds) IN
    IF scan.check_count = Len(ds)
    THEN /\ depths' = ds
         /\ noir_call' = Call("get_task", FALSE)
         /\ driver' = "done"
         /\ UNCHANGED node_cursor
    ELSE \E e \in PQTops(ds[scan.depth + 1].unsearched) :
            /\ depths' = [ds EXCEPT
                             ![scan.depth + 1].unsearched = PQRemove(@, e),
                             ![scan.depth + 1].searched = Append(@, e.node)]
            /\ node_cursor' = [node_cursor EXCEPT !.cursor = e.node,
                                                  !.depth = scan.depth]
            /\ noir_call' = Call("get_task", TRUE)
            /\ driver' = "task"

\* NodeManager::get_task; ok = TRUE when a task came back
GetTask ==
    /\ noir_fault = "none"
    /\ driver \in {"new", "idle"}
    /\ UNCHANGED <<aiVars, nodeVars, noirSetup, turns, noir_allocations, libVars>>
    /\ IF is_limit_reached(memory, config.node_limit)
       THEN \E p \in prune(depths, transposition_table, NoirStore(noir_node, memory)) :
               IF p.st.fault # "none" THEN NoirFault("get_task", p.st.fault)
               ELSE IF ~p.ret
               THEN /\ noir_call' = Call("get_task", FALSE)
                    /\ driver' = "done"
                    /\ UNCHANGED <<noir_node, memory, node_cursor, depths,
                                   transposition_table, noir_fault>>
               ELSE /\ noir_node' = p.st.node
                    /\ memory' = p.st.memory
                    /\ transposition_table' = p.tt
                    /\ GetTaskScan(p.depths)
                    /\ UNCHANGED noir_fault
       ELSE /\ GetTaskScan(depths)
            /\ UNCHANGED <<noir_node, memory, transposition_table, noir_fault>>

\* NodeManager::get_new_state, and the caller writing the child's state
GetNewState(state) ==
    /\ noir_fault = "none"
    /\ driver = "task"
    /\ UNCHANGED <<aiVars, nodeVars, noirSetup, turns, libVars>>
    /\ noir_allocations < AllocationCap
    /\ noir_allocations' = noir_allocations + 1
    /\ LET a == NoirAllocate(NoirStore(noir_node, memory), node_cursor.cursor)
       IN  /\ noir_node' = [a.st.node EXCEPT ![a.ret].state = state]
           /\ memory' = a.st.memory
           /\ node_cursor' = [node_cursor EXCEPT !.allocated_node = a.ret]
    /\ noir_call' = Call("get_new_state", TRUE)
    /\ driver' = "alloc"
    /\ UNCHANGED <<depths, transposition_table, noir_fault>>

\* NodeManager::verify_state
VerifyState ==
    /\ noir_fault = "none"
    /\ driver = "alloc"
    /\ UNCHANGED <<aiVars, nodeVars, noirSetup, turns, noir_allocations, libVars>>
    /\ LET allocated_node == node_cursor.allocated_node
           hash == state_hash(noir_node[allocated_node].state)
       IN  IF allocated_node = Null
           THEN /\ noir_call' = Call("verify_state", FALSE)
                /\ driver' = "task"
                /\ UNCHANGED <<noir_node, memory, transposition_table>>
           ELSE IF noir_node[allocated_node].pruned
           THEN /\ noir_call' = Call("verify_state", FALSE)
                /\ driver' = "task"
                /\ UNCHANGED <<noir_node, memory, transposition_table>>
           ELSE IF transposition_table[hash] # Null
           THEN LET st == NoirDeallocate(NoirStore(noir_node, memory), allocated_node)
                IN  /\ noir_node' = st.node
                    /\ memory' = st.memory
                    /\ noir_call' = Call("verify_state", FALSE)
                    /\ driver' = "task"
                    /\ UNCHANGED transposition_table
           ELSE /\ transposition_table' =
                       [transposition_table EXCEPT ![hash] = allocated_node]
                /\ noir_call' = Call("verify_state", TRUE)
                /\ driver' = "verified"
                /\ UNCHANGED <<noir_node, memory>>
    /\ UNCHANGED <<node_cursor, depths, noir_fault>>

\* NodeManager::report_result
ReportResult(value) ==
    /\ noir_fault = "none"
    /\ driver = "verified"
    /\ UNCHANGED <<aiVars, nodeVars, noirSetup, turns, noir_allocations, libVars>>
    /\ IF node_cursor.depth + 1 = Len(depths)
       THEN NoirFault("report_result", "abort")
       ELSE /\ depths' = [depths EXCEPT ![node_cursor.depth + 2].unsearched =
                             PQPush(@, NodeValue(node_cursor.allocated_node, value))]
            /\ noir_call' = Call("report_result", TRUE)
            /\ driver' = "task"
            /\ UNCHANGED <<noir_node, memory, node_cursor, transposition_table,
                           noir_fault>>

Next ==
    \/ \E s \in NoirStates : PrepareTree(s)
    \/ GetTask
    \/ IncrementDepthCounter
    \/ \E s \in NoirStates : GetNewState(s)
    \/ VerifyState
    \/ \E v \in Values : ReportResult(v)

(***************************************************************************)
(* The manager that keeps the pruned flag in the first word of the state,  *)
(* node::NodeManager (src/node_manager_new.hpp).  A state is one word:     *)
(* the caller's states are 1..NodeNumStates, mark_pruned(false) writes 0   *)
(* and mark_pruned(true) writes SizeMax.  Its operators work on a store    *)
(* [node, memory, fault] as those of noir::NodeManager do; the pool's      *)
(* reset, size and is_limit_reached, NodeDepth's size and empty, get_root, *)
(* get_first_parent and get_first_active_depth_index are the same code in  *)
(* both files.  The caller sets config once, before the first call, and    *)
(* then loops: prepare_tree; get_task, and for the task it gave,           *)
(* get_new_state and report_result for each child; the turn ends when      *)
(* get_task gives nothing, or earlier.                                     *)
(***************************************************************************)
NodeNumStates == 2
\* NodeTreeConfig of node::NodeManager, as set through get_config()
NodeCfgDepth == 2
NodeCfgNodeLimit == 4
\* calls of prepare_tree, and allocations, the caller makes in all
NodeMaxTurns == 2
NodeMaxAllocations == 5

NodeStates == 1..NodeNumStates

\* Node::is_pruned
is_pruned(nd, n) == nd[n].state = SizeMax

\* NodeMemory::allocate_raw and allocate: [st, ret]
NodeAllocate(st, parent) ==
    LET mem == st.memory
        raw == IF mem.free_head # Null
               THEN [memory |-> [mem EXCEPT !.free_head = st.node[mem.free_head].parent,
                                            !.free_count = @ - 1],
                     ret |-> mem.free_head]
               ELSE IF mem.cursor < mem.size
               THEN [memory |-> [mem EXCEPT !.cursor = @ + 1, !.free_count = @ - 1],
                     ret |-> mem.cursor + 1]
               ELSE [memory |-> [mem EXCEPT !.size = @ + 1, !.cursor = @ + 1],
                     ret |-> mem.size + 1]
    IN  [st  |-> [st EXCEPT !.memory = raw.memory,
                            !.node[raw.ret].state = 0,
                            !.node[raw.ret].parent = parent],
         ret |-> raw.ret]

\* NodeMemory::deallocate
NodeDeallocate(st, n) ==
    [st EXCEPT !.node[n].state = SizeMax,
               !.node[n].parent = st.memory.free_head,
               !.memory.free_head = n,
               !.memory.free_count = @ + 1]

\* Node::get_parent_at: [ret, fault].  The recursion stays on the same node:
\* each of its n steps asserts the same parent and the end returns this.
node_get_parent_at(nd, node, n) ==
    IF n = 0 THEN [ret |-> node, fault |-> "none"]
    ELSE IF nd[node].parent = Null THEN [ret |-> Null, fault |-> "abort"]
    ELSE [ret |-> node, fault |-> "none"]

\* the lambda remove_orphans of NodeDepth::cleanup: [vec, st]
RECURSIVE NodeRemoveOrphans(_, _, _)
NodeRemoveOrphans(vec, i, st) ==
    IF i > Len(vec) THEN [vec |-> vec, st |-> st]
    ELSE IF is_pruned(st.node, vec[i])
    THEN NodeRemoveOrphans(SwapRemove(vec, i), i, NodeDeallocate(st, vec[i]))
    ELSE NodeRemoveOrphans(vec, i + 1, st)

\* the lambda remove_losers of NodeDepth::filter: [vec, st]
RECURSIVE NodeRemoveLosers(_, _, _, _)
NodeRemoveLosers(vec, i, st, survivor) ==
    IF i > Len(vec) THEN [vec |-> vec, st |-> st]
    ELSE IF vec[i] # survivor
    THEN NodeRemoveLosers(SwapRemove(vec, i), i, NodeDeallocate(st, vec[i]), survivor)
    ELSE NodeRemoveLosers(vec, i + 1, st, survivor)

\* NodeDepth::cleanup: [depth, st]
NodeCleanup(d, st) ==
    IF DepthEmpty(d) THEN [depth |-> d, st |-> st]
    ELSE LET u == IF PQEmpty(d.unsearched)
                  THEN [vec |-> <<>>, st |-> st]
                  ELSE NodeRemoveOrphans(export_container(d.unsearched), 1, st)
             r == NodeRemoveOrphans(d.searched, 1, u.st)
         IN  [depth |-> [unsearched |-> import_container(d.unsearched, u.vec),
                         searched |-> r.vec],
              st |-> r.st]

\* NodeDepth::filter: [depth, st]
NodeFilter(d, survivor, st) ==
    IF DepthEmpty(d) THEN [depth |-> d, st |-> st]
    ELSE LET u == IF PQEmpty(d.unsearched)
                  THEN [vec |-> <<>>, st |-> st]
                  ELSE NodeRemoveLosers(export_container(d.unsearched), 1, st, survivor)
             r == NodeRemoveLosers(d.searched, 1, u.st, survivor)
         IN  [depth |-> [unsearched |-> import_container(d.unsearched, u.vec),
                         searched |-> r.vec],
              st |-> r.st]

\* the loops over depth.cleanup(memory) of prune and prepare_tree, for the
\* indices i..last: [depths, st]
RECURSIVE NodeCleanupDepths(_, _, _, _)
NodeCleanupDepths(ds, i, last, st) ==
    IF i > last THEN [depths |-> ds, st |-> st]
    ELSE LET c == NodeCleanup(ds[i + 1], st)
         IN  NodeCleanupDepths([ds EXCEPT ![i + 1] = c.depth], i + 1, last, c.st)

\* NodeManager::get_last_active_depth_index: [ret, fault]; the assert fails
\* when the deepest bucket that holds a node holds a searched one
node_get_last_active_depth_index(ds) ==
    LET last == get_last_active_depth_index(ds) IN
    IF last # SizeMax /\ ds[last + 1].searched # <<>>
    THEN [ret |-> last, fault |-> "abort"]
    ELSE [ret |-> last, fault |-> "none"]

\* last_active_depth_index - first_active_depth_index in size_t: it wraps
\* when first is the largest size_t
IndexDiff(last, first) == IF first = SizeMax THEN last + 1 ELSE last - first

NodePruneResult(ret, ds, st) == [ret |-> ret, depths |-> ds, st |-> st]

\* NodeManager::prune: the outcomes.  depths[first_active_depth_index] with
\* the largest size_t as the index is undefined.
node_prune(ds, st) ==
    LET first == get_first_active_depth_index(ds)
        last == node_get_last_active_depth_index(ds)
    IN  IF last.fault # "none"
        THEN {NodePruneResult(FALSE, ds, [st EXCEPT !.fault = last.fault])}
        ELSE IF first = last.ret THEN {NodePruneResult(FALSE, ds, st)}
        ELSE IF last.ret = SizeMax
        THEN {NodePruneResult(FALSE, ds, [st EXCEPT !.fault = "throw"])}
        ELSE {LET best_node == node_get_parent_at(st.node, e.node,
                                                  IndexDiff(last.ret, first))
              IN  IF best_node.fault # "none"
                  THEN NodePruneResult(FALSE, ds, [st EXCEPT !.fault = best_node.fault])
                  ELSE IF first = SizeMax
                  THEN NodePruneResult(FALSE, ds, [st EXCEPT !.fault = "ub"])
                  ELSE LET f == NodeFilter(ds[first + 1], best_node.ret, st)
                           c == NodeCleanupDepths([ds EXCEPT ![first + 1] = f.depth],
                                                  first, last.ret, f.st)
                       IN  NodePruneResult(TRUE, c.depths, c.st) :
                  e \in PQTops(ds[last.ret + 1].unsearched)}

NodeInit ==
    /\ node_manager =
           [node |-> [n \in 1..NodeMaxAllocations |-> [parent |-> Null, state |-> 0]],
            memory |-> [size |-> 0, free_head |-> Null, cursor |-> 0, free_count |-> 0],
            node_cursor |-> [cursor |-> Null, allocated_node |-> Null, depth |-> 0],
            depths |-> << >>,
            config |-> [depth |-> NodeCfgDepth, node_limit |-> NodeCfgNodeLimit]]
    /\ node_run = [driver |-> "new", turns |-> 0, allocations |-> 0,
                   call |-> Call("none", FALSE), fault |-> "none"]

\* the caller's side of a call: where it stands next, and what came back
NodeReturn(next, op, ok) ==
    [node_run EXCEPT !.driver = next, !.call = Call(op, ok)]

\* a call that ends the process
NodeFault(op, fault) ==
    /\ node_run' = [node_run EXCEPT !.call = Call(op, FALSE), !.fault = fault]
    /\ UNCHANGED node_manager

\* NodeManager::reset: the data members it leaves
node_reset(current_state) ==
    LET a == NodeAllocate([node |-> node_manager.node,
                           memory |-> NoirMemoryReset(node_manager.memory),
                           fault |-> "none"], Null)
    IN  [node_manager EXCEPT
            !.node = [a.st.node EXCEPT ![a.ret].state = current_state],
            !.memory = a.st.memory,
            !.depths = [i \in 1..(node_manager.config.depth + 1) |->
                           IF i = 1
                           THEN [EmptyNodeDepth EXCEPT
                                    !.unsearched = PQPush(EmptyBag, NodeValue(a.ret, 0))]
                           ELSE EmptyNodeDepth]]

\* lines 313-322 of NodeManager::prepare_tree, on the resized depths
NodeShift(ds, tree_root) ==
    LET st1 == NodeDeallocate([node |-> node_manager.node,
                               memory |-> node_manager.memory,
                               fault |-> "none"], tree_root)
        shifted == [i \in 1..Len(ds) |-> IF i < Len(ds) THEN ds[i + 1] ELSE ds[i]]
        last == node_get_last_active_depth_index(shifted)
    IN  IF last.fault # "none" THEN NodeFault("prepare_tree", last.fault)
        ELSE IF last.ret = SizeMax THEN NodeFault("prepare_tree", "ub")
        ELSE \E e \in PQTops(shifted[last.ret + 1].unsearched) :
                LET f == NodeFilter(shifted[1],
                                    noir_get_first_parent(st1.node, e.node), st1)
                IN  IF Len(f.depth.searched) # 1 \/ ~PQEmpty(f.depth.unsearched)
                    THEN NodeFault("prepare_tree", "abort")
                    ELSE LET st2 == [f.st EXCEPT !.node[f.depth.searched[1]].parent = Null]
                             c == NodeCleanupDepths(
                                      [shifted EXCEPT ![1] = f.depth,
                                                      ![Len(ds)] = EmptyNodeDepth],
                                      1, Len(ds) - 2, st2)
                         IN  /\ node_manager' = [node_manager EXCEPT
                                                    !.node = c.st.node,
                                                    !.memory = c.st.memory,
                                                    !.depths = c.depths]
                             /\ node_run' = [NodeReturn("idle", "prepare_tree", TRUE)
                                                EXCEPT !.turns = @ + 1]

\* NodeManager::prepare_tree; the call is recorded with ok = TRUE when the
\* tree was kept and shifted, FALSE when it was reset
NodePrepareTree(current_state) ==
    /\ node_run.fault = "none"
    /\ node_run.driver \in {"new", "idle", "task", "done"}
    /\ node_run.turns < NodeMaxTurns
    /\ node_run.allocations < NodeMaxAllocations
    /\ UNCHANGED <<aiVars, noirVars, libVars>>
    /\ LET cfg == node_manager.config
           depths_in == node_manager.depths
           DoReset == /\ node_manager' = node_reset(current_state)
                      /\ node_run' = [NodeReturn("idle", "prepare_tree", FALSE)
                                         EXCEPT !.turns = @ + 1,
                                                !.allocations = @ + 1]
           resized == [i \in 1..cfg.depth |->
                          IF i <= Len(depths_in) THEN depths_in[i] ELSE EmptyNodeDepth]
       IN  IF cfg.depth < Len(depths_in) THEN DoReset
           ELSE IF cfg.depth = 0 THEN NodeFault("prepare_tree", "ub")
           ELSE IF get_root(resized).fault # "none"
           THEN NodeFault("prepare_tree", get_root(resized).fault)
           ELSE IF get_root(resized).ret = Null THEN DoReset
           ELSE IF node_manager.node[get_root(resized).ret].state # current_state
           THEN DoReset
           ELSE NodeShift(resized, get_root(resized).ret)

\* the loop of NodeManager::get_task: [check_count, depth]
RECURSIVE NodeScanDepths(_, _, _)
NodeScanDepths(check_count, depth, ds) ==
    IF check_count # Len(ds) /\ PQEmpty(ds[depth + 1].unsearched)
    THEN NodeScanDepths(check_count + 1,
                        IF depth + 1 >= Len(ds) THEN 0 ELSE depth + 1, ds)
    ELSE [check_count |-> check_count, depth |-> depth]

\* lines 331-343 of NodeManager::get_task, on the pool and the tree prune left
NodeGetTaskScan(ds, st) ==
    LET scan == NodeScanDepths(0, node_manager.node_cursor.depth, ds)
        pruned == [node_manager EXCEPT !.node = st.node, !.memory = st.memory,
                                       !.depths = ds,
                                       !.node_cursor.depth = scan.depth]
    IN  IF scan.check_count = Len(ds)
        THEN /\ node_manager' = pruned
             /\ node_run' = NodeReturn("done", "get_task", FALSE)
        ELSE \E e \in PQTops(ds[scan.depth + 1].unsearched) :
                /\ node_manager' =
                       [pruned EXCEPT
                           !.depths[scan.depth + 1].unsearched = PQRemove(@, e),
                           !.depths[scan.depth + 1].searched = Append(@, e.node),
                           !.node_cursor.cursor = e.node]
                /\ node_run' = NodeReturn("task", "get_task", TRUE)

\* NodeManager::get_task; ok = TRUE when a task came back
NodeGetTask ==
    /\ node_run.fault = "none"
    /\ node_run.driver \in {"new", "idle", "task"}
    /\ UNCHANGED <<aiVars, noirVars, libVars>>
    /\ LET st == [node |-> node_manager.node, memory |-> node_manager.memory,
                  fault |-> "none"]
       IN  IF is_limit_reached(node_manager.memory, node_manager.config.node_limit)
           THEN \E p \in node_prune(node_manager.depths, st) :
                   IF p.st.fault # "none" THEN NodeFault("get_task", p.st.fault)
                   ELSE IF ~p.ret
                   THEN /\ node_run' = NodeReturn("done", "get_task", FALSE)
                        /\ UNCHANGED node_manager
                   ELSE NodeGetTaskScan(p.depths, p.st)
           ELSE NodeGetTaskScan(node_manager.depths, st)

\* NodeManager::get_new_state, and the caller writing the child's state
NodeGetNewState(state) ==
    /\ node_run.fault = "none"
    /\ node_run.driver = "task"
    /\ node_run.allocations < NodeMaxAllocations
    /\ UNCHANGED <<aiVars, noirVars, libVars>>
    /\ LET a == NodeAllocate([node |-> node_manager.node,
                              memory |-> node_manager.memory, fault |-> "none"],
                             node_manager.node_cursor.cursor)
       IN  node_manager' =
               [node_manager EXCEPT
                   !.node = [a.st.node EXCEPT ![a.ret].state = state],
                   !.memory = a.st.memory,
                   !.node_cursor.allocated_node = a.ret]
    /\ node_run' = [NodeReturn("alloc", "get_new_state", TRUE)
                       EXCEPT !.allocations = @ + 1]

\* NodeManager::report_result
NodeReportResult(value) ==
    /\ node_run.fault = "none"
    /\ node_run.driver = "alloc"
    /\ UNCHANGED <<aiVars, noirVars, libVars>>
    /\ IF node_manager.node_cursor.depth + 1 = Len(node_manager.depths)
       THEN NodeFault("report_result", "abort")
       ELSE /\ node_manager' =
                   [node_manager EXCEPT
                       !.depths[node_manager.node_cursor.depth + 2].unsearched =
                           PQPush(@, NodeValue(node_manager.node_cursor.allocated_node,
                                               value))]
            /\ node_run' = NodeReturn("task", "report_result", TRUE)

NodeNext ==
    \/ \E s \in NodeStates : NodePrepareTree(s)
    \/ NodeGetTask
    \/ \E s \in NodeStates : NodeGetNewState(s)
    \/ \E v \in Values : NodeReportResult(v)

(***************************************************************************)
(* noir::NodeMemory on its own: any sequence of allocate, deallocate of a  *)
(* live node and reset.                                                    *)
(***************************************************************************)
PoolMaxSlots == 4

PoolInit ==
    /\ pool = NoirStore([n \in 1..PoolMaxSlots |-> NoirZeroNode],
                        [size |-> 0, free_head |-> Null, cursor |-> 0, free_count |-> 0])
    /\ pool_live = {}
    /\ pool_freed = << >>
    /\ pool_issued = {}
    /\ pool_call = [op |-> "none", ret |-> Null, tick |-> 0]

PoolCall(op, ret) == [op |-> op, ret |-> ret, tick |-> 1 - pool_call.tick]

\* NodeMemory::allocate(parent)
PoolAllocate(parent) ==
    LET a == NoirAllocate(pool, parent) IN
    /\ a.ret <= PoolMaxSlots
    /\ pool' = a.st
    /\ pool_live' = pool_live \cup {a.ret}
    /\ pool_freed' = SelectSeq(pool_freed, LAMBDA n : n # a.ret)
    /\ pool_issued' = pool_issued \cup {a.ret}
    /\ pool_call' = PoolCall("allocate", a.ret)
    /\ UNCHANGED <<aiVars, noirVars, nodeVars, threadVars>>

\* NodeMemory::deallocate(node) of a live node
PoolDeallocate(n) ==
    /\ n \in pool_live
    /\ pool' = NoirDeallocate(pool, n)
    /\ pool_live' = pool_live \ {n}
    /\ pool_freed' = Append(pool_freed, n)
    /\ pool_call' = PoolCall("deallocate", Null)
    /\ UNCHANGED <<pool_issued, aiVars, noirVars, nodeVars, threadVars>>

\* NodeMemory::reset
PoolReset ==
    /\ pool' = [pool EXCEPT !.memory = NoirMemoryReset(pool.memory)]
    /\ pool_live' = {}
    /\ pool_freed' = << >>
    /\ pool_call' = PoolCall("reset", Null)
    /\ UNCHANGED <<pool_issued, aiVars, noirVars, nodeVars, threadVars>>

PoolNext ==
    \/ \E parent \in pool_live \cup {Null} : PoolAllocate(parent)
    \/ \E n \in 1..PoolMaxSlots : PoolDeallocate(n)
    \/ PoolReset

(***************************************************************************)
(* thread::ThreadPool (src/thread.hpp): the workers run work_func, the     *)
(* owning thread calls enqueue and wait and then destroys the pool.        *)
(***************************************************************************)
\* the size given to init, and the calls of enqueue the owner makes
WorkerCount == 2
MaxEnqueued == 2

Workers == 1..WorkerCount

\* the pool after init(WorkerCount): every worker at the top of work_func
ThreadInit ==
    /\ stop = FALSE
    /\ task_queue = 0
    /\ active_tasks = 0
    /\ mtx = Null
    /\ condition = {}
    /\ worker_pc = [w \in Workers |-> "lock"]
    /\ owner_pc = "user"
    /\ joined = 0
    /\ enqueued = 0

ThreadFrame == UNCHANGED <<aiVars, noirVars, nodeVars, poolVars>>

\* enqueue: the block under the lock_guard
Enqueue ==
    /\ owner_pc = "user"
    /\ enqueued < MaxEnqueued
    /\ mtx = Null
    /\ task_queue' = task_queue + 1
    /\ active_tasks' = active_tasks + 1
    /\ enqueued' = enqueued + 1
    /\ owner_pc' = "notify_one"
    /\ ThreadFrame
    /\ UNCHANGED <<stop, mtx, condition, worker_pc, joined>>

\* enqueue: condition.notify_one(), which wakes one blocked worker if any
NotifyOne ==
    /\ owner_pc = "notify_one"
    /\ owner_pc' = "user"
    /\ IF condition = {}
       THEN UNCHANGED <<condition, worker_pc>>
       ELSE \E w \in condition :
               /\ condition' = condition \ {w}
               /\ worker_pc' = [worker_pc EXCEPT ![w] = "woken"]
    /\ ThreadFrame
    /\ UNCHANGED <<stop, task_queue, active_tasks, mtx, joined, enqueued>>

\* wait: called
WaitCall ==
    /\ owner_pc = "user"
    /\ owner_pc' = "wait"
    /\ ThreadFrame
    /\ UNCHANGED <<stop, task_queue, active_tasks, mtx, condition, worker_pc,
                   joined, enqueued>>

\* wait: the loop ends once active_tasks is 0
WaitReturn ==
    /\ owner_pc = "wait"
    /\ active_tasks = 0
    /\ owner_pc' = "user"
    /\ ThreadFrame
    /\ UNCHANGED <<stop, task_queue, active_tasks, mtx, condition, worker_pc,
                   joined, enqueued>>

\* ~ThreadPool: stop = true, without the mutex
DestructorStop ==
    /\ owner_pc = "user"
    /\ stop' = TRUE
    /\ owner_pc' = "notify_all"
    /\ ThreadFrame
    /\ UNCHANGED <<task_queue, active_tasks, mtx, condition, worker_pc, joined,
                   enqueued>>

\* ~ThreadPool: condition.notify_all(), which wakes the workers blocked now
DestructorNotifyAll ==
    /\ owner_pc = "notify_all"
    /\ condition' = {}
    /\ worker_pc' = [w \in Workers |->
                        IF w \in condition THEN "woken" ELSE worker_pc[w]]
    /\ owner_pc' = "join"
    /\ ThreadFrame
    /\ UNCHANGED <<stop, task_queue, active_tasks, mtx, joined, enqueued>>

\* ~ThreadPool: worker.join() of the next worker, which returns once that
\* worker has left work_func
DestructorJoin ==
    /\ owner_pc = "join"
    /\ worker_pc[joined + 1] = "done"
    /\ joined' = joined + 1
    /\ owner_pc' = IF joined + 1 = WorkerCount THEN "destroyed" ELSE "join"
    /\ ThreadFrame
    /\ UNCHANGED <<stop, task_queue, active_tasks, mtx, condition, worker_pc,
                   enqueued>>

\* work_func: the unique_lock is taken, or taken again on the way out of
\* condition_variable::wait
WorkerLock(w) ==
    /\ worker_pc[w] \in {"lock", "woken"}
    /\ mtx = Null
    /\ mtx' = w
    /\ worker_pc' = [worker_pc EXCEPT ![w] = "predicate"]
    /\ ThreadFrame
    /\ UNCHANGED <<stop, task_queue, active_tasks, condition, owner_pc, joined,
                   enqueued>>

\* work_func: wait(lock, pred) evaluates stop || !tasks.empty() with the
\* mutex held
WorkerPredicate(w) ==
    /\ worker_pc[w] = "predicate"
    /\ worker_pc' = [worker_pc EXCEPT
                        ![w] = IF stop \/ task_queue # 0 THEN "take" ELSE "block"]
    /\ ThreadFrame
    /\ UNCHANGED <<stop, task_queue, active_tasks, mtx, condition, owner_pc,
                   joined, enqueued>>

\* work_func: the predicate was false, wait(lock) releases the mutex and
\* blocks the worker in one step
WorkerBlock(w) ==
    /\ worker_pc[w] = "block"
    /\ mtx' = Null
    /\ condition' = condition \cup {w}
    /\ worker_pc' = [worker_pc EXCEPT ![w] = "waiting"]
    /\ ThreadFrame
    /\ UNCHANGED <<stop, task_queue, active_tasks, owner_pc, joined, enqueued>>

\* std::condition_variable::wait may return without a notification
SpuriousWakeup(w) ==
    /\ w \in condition
    /\ condition' = condition \ {w}
    /\ worker_pc' = [worker_pc EXCEPT ![w] = "woken"]
    /\ ThreadFrame
    /\ UNCHANGED <<stop, task_queue, active_tasks, mtx, owner_pc, joined,
                   enqueued>>

\* work_func: return if stop && tasks.empty(), otherwise take the front task;
\* the unique_lock is released either way
WorkerTake(w) ==
    /\ worker_pc[w] = "take"
    /\ mtx' = Null
    /\ IF stop /\ task_queue = 0
       THEN /\ worker_pc' = [worker_pc EXCEPT ![w] = "done"]
            /\ UNCHANGED task_queue
       ELSE /\ task_queue' = task_queue - 1
            /\ worker_pc' = [worker_pc EXCEPT ![w] = "run"]
    /\ ThreadFrame
    /\ UNCHANGED <<stop, active_tasks, condition, owner_pc, joined, enqueued>>

\* work_func: task() returns and active_tasks is decremented
WorkerRun(w) ==
    /\ worker_pc[w] = "run"
    /\ active_tasks' = active_tasks - 1
    /\ worker_pc' = [worker_pc EXCEPT ![w] = "lock"]
    /\ ThreadFrame
    /\ UNCHANGED <<stop, task_queue, mtx, condition, owner_pc, joined, enqueued>>

\* the steps of worker w that the scheduler makes
WorkerStep(w) ==
    \/ WorkerLock(w)
    \/ WorkerPredicate(w)
    \/ WorkerBlock(w)
    \/ WorkerTake(w)
    \/ WorkerRun(w)

\* the steps of the destructor
Destructor ==
    \/ DestructorStop
    \/ DestructorNotifyAll
    \/ DestructorJoin

ThreadNext ==
    \/ Enqueue
    \/ NotifyOne
    \/ WaitCall
    \/ WaitReturn
    \/ Destructor
    \/ \E w \in Workers : WorkerStep(w)
    \/ \E w \in Workers : SpuriousWakeup(w)

LibInit == PoolInit /\ ThreadInit

Init == AiInit /\ NoirInit /\ NodeInit /\ LibInit

PoolSpec == Init /\ [][PoolNext]_vars

ThreadSpec == Init /\ [][ThreadNext]_vars

\* fair scheduling: a thread whose next step stays possible takes it; the
\* owner is not obliged to call enqueue, wait or the destructor, and a worker
\* is not obliged to wake without a notification
ThreadFairSpec ==
    /\ ThreadSpec
    /\ WF_vars(NotifyOne)
    /\ WF_vars(WaitReturn)
    /\ WF_vars(DestructorNotifyAll)
    /\ WF_vars(DestructorJoin)
    /\ \A w \in Workers : SF_vars(WorkerLock(w))
    /\ \A w \in Workers :
          WF_vars(WorkerPredicate(w) \/ WorkerBlock(w) \/ WorkerTake(w) \/ WorkerRun(w))

Spec == Init /\ [][Next]_vars

ParSpec == Init /\ [][ParNext]_vars

\* the parallel manager with a CollisionFunc that is true for every pair
CollisionInit ==
    /\ AiStart
    /\ collision_always = TRUE
    /\ depth_task_size = CfgDepthTaskSize
    /\ NoirInit
    /\ NodeInit
    /\ LibInit

CollisionSpec == CollisionInit /\ [][ParNext]_vars

\* the parallel manager with a depth_task_size of one
SingleTask == 1

TaskSizeInit ==
    /\ AiStart
    /\ collision_always = FALSE
    /\ depth_task_size = SingleTask
    /\ NoirInit
    /\ NodeInit
    /\ LibInit

TaskSizeSpec == TaskSizeInit /\ [][ParNext]_vars

\* node::NodeManager, with the node limit of Init or a node limit of one
NodeSetupInit ==
    /\ AiInit
    /\ NoirInit
    /\ LibInit
    /\ \E limit \in {NodeCfgNodeLimit, LimitOfOne} :
          /\ node_manager =
                 [node |-> [n \in 1..NodeMaxAllocations |-> [parent |-> Null, state |-> 0]],
                  memory |-> [size |-> 0, free_head |-> Null, cursor |-> 0,
                              free_count |-> 0],
                  node_cursor |-> [cursor |-> Null, allocated_node |-> Null, depth |-> 0],
                  depths |-> << >>,
                  config |-> [depth |-> NodeCfgDepth, node_limit |-> limit]]
    /\ node_run = [driver |-> "new", turns |-> 0, allocations |-> 0,
                   call |-> Call("none", FALSE), fault |-> "none"]

NodeSpec == NodeSetupInit /\ [][NodeNext]_vars

\* the single-threaded manager under the other set-ups
SetupInit == AiInit /\ NoirSetupInit /\ NodeInit /\ LibInit

SetupSpec == SetupInit /\ [][Next]_vars

\* the single-threaded manager under the deeper set-up, driven by a caller
\* whose every state is new: the state of the n-th node allocated is n
DeepInit ==
    /\ AiInit
    /\ NoirStart
    /\ config = NodeTreeConfig(DeepDepth, NoirPruneDepthLimit, DeepNodeLimit)
    /\ hash_modulus = DeepHashModulus
    /\ NodeInit
    /\ LibInit

DeepNext ==
    \/ PrepareTree(noir_allocations + 1)
    \/ GetTask
    \/ IncrementDepthCounter
    \/ GetNewState(noir_allocations + 1)
    \/ VerifyState
    \/ \E v \in Values : ReportResult(v)

DeepSpec == DeepInit /\ [][DeepNext]_vars

(***************************************************************************)
(* Properties of the parallel manager, checked under ParSpec.              *)
(***************************************************************************)
\* the slots reached from free_head through the parent field
RECURSIVE FreeChain(_, _, _)
FreeChain(nd, n, acc) ==
    IF n = Null \/ n \in acc THEN acc
    ELSE FreeChain(nd, nd[n].parent, acc \cup {n})

\* the slots on the free list of some lane
FreeNodes(nd, ls) == UNION {FreeChain(nd, ls[t].free_head, {}) : t \in DOMAIN ls}

\* node and everything under it, by the child and sibling links
RECURSIVE Subtree(_, _, _)
Subtree(nd, todo, acc) ==
    IF todo \subseteq acc \cup {Null} THEN acc
    ELSE LET n == CHOOSE x \in todo \ (acc \cup {Null}) : TRUE
         IN  Subtree(nd, (todo \ {n}) \cup {nd[n].child, nd[n].sibling}, acc \cup {n})

SubtreeOf(nd, n) ==
    IF n = Null THEN {} ELSE {n} \cup Subtree(nd, {nd[n].child}, {})

\* the nodes a depth bucket holds, in its queue or in its transposition table
BucketNodes(dt) ==
    {e.node : e \in BagToSet(dt.tasks)}
        \cup UNION {SeqSet(dt.transposition_table[h]) : h \in DOMAIN dt.transposition_table}

AdvancedStep == ai_call'.op = "try_advance" /\ ai_call'.ok /\ iterations' # iterations

\* C3: every node get_tasks places in a batch is live: its slot is not on a
\* free list when the batch is handed out.
C3_IssuedNodesLive ==
    (ai_call.op = "get_tasks" /\ ai_fault = "none")
        => IssuedNodes(threads) \cap FreeNodes(ai_node, lanes) = {}

\* C4: when try_advance returns true, the old root and every child of the old
\* root other than the promoted one, with its whole subtree, are deallocated.
C4_AdvanceFreesSiblings ==
    [][(AdvancedStep /\ ai_fault' = "none")
          => /\ root \in FreeNodes(ai_node', lanes')
             /\ \A c \in SeqSet(ChildList(ai_node, root).nodes) \ {root'} :
                    SubtreeOf(ai_node, c) \subseteq FreeNodes(ai_node', lanes')]_vars

\* C5: after try_advance returned true the last depth bucket is empty and
\* depth bucket 0 holds exactly one node, the new root, whose parent is null.
C5_AdvanceShiftsBuckets ==
    (ai_call.op = "try_advance" /\ ai_call.ok /\ ai_fault = "none")
        => /\ BucketNodes(pending_depths[CfgDepth]) = {}
           /\ BucketNodes(pending_depths[0]) = {root}
           /\ ai_node[root].parent = Null

\* C6: the node try_advance promotes is the node whose state get_best_state
\* returned just before, whenever that answer is a single definite node.
C6_AdvancePromotesBest ==
    [][(AdvancedStep /\ ai_fault' = "none")
          => \A r \in get_best_state(ai_node, pending_depths) :
                 (Cardinality(get_best_state(ai_node, pending_depths)) = 1
                  /\ r.fault = "none" /\ r.ret # Null) => root' = r.ret]_vars

\* C7: a state get_best_state returns belongs to a live child of the current
\* root.
C7_BestIsLiveChildOfRoot ==
    (ai_fault = "none" /\ root # Null)
        => \A r \in get_best_state(ai_node, pending_depths) :
               (r.fault = "none" /\ r.ret # Null)
                   => /\ r.ret \in SeqSet(ChildList(ai_node, root).nodes)
                      /\ ai_node[r.ret].parent = root
                      /\ r.ret \notin FreeNodes(ai_node, lanes)

\* C8: right after reset, get_best_state returns none and follows no null
\* parent.
C8_BestIsNoneAfterReset ==
    (ai_call.op = "reset" /\ ai_fault = "none")
        => get_best_state(ai_node, pending_depths) = {[ret |-> Null, fault |-> "none"]}

\* C9: when push_new_node drops a duplicate, the dropped node's slot is back
\* on a lane's free list and is no longer a child of its parent.
C9_DuplicateIsDeallocated ==
    [][(new_node.node # Null /\ ai_call'.op = "push_new_node" /\ ~ai_call'.ok
        /\ ai_fault' = "none")
          => /\ new_node.node \in FreeNodes(ai_node', lanes')
             /\ new_node.node
                    \notin SeqSet(ChildList(ai_node', ai_node[new_node.node].parent).nodes)]_vars

\* the number of parent links from n up to a parentless node, or to a bound
RECURSIVE ParentLinks(_, _, _)
ParentLinks(nd, n, bound) ==
    IF nd[n].parent = Null \/ bound = 0 THEN 0
    ELSE 1 + ParentLinks(nd, nd[n].parent, bound - 1)

\* how often node n stands in a transposition bucket
Occurrences(bucket, n) == Cardinality({i \in 1..Len(bucket) : bucket[i] = n})

\* C13: every live node of the tree, the root at depth 0 included, stands
\* exactly once in the bucket for the hash of its state in the
\* transposition table of its depth.
C13_LiveNodesInTable ==
    (ai_fault = "none" /\ root # Null)
        => \A n \in SubtreeOf(ai_node, root) \ FreeNodes(ai_node, lanes) :
               LET k == ParentLinks(ai_node, n, MaxAllocations) IN
               /\ k \in DOMAIN pending_depths
               /\ Occurrences(pending_depths[k].transposition_table[
                                  hash_func(ai_node[n].state)], n) = 1

\* a step that is a call of try_advance
TryAdvanceStep ==
    /\ ai_call'.op = "try_advance"
    /\ ai_call' # ai_call \/ iterations' # iterations

\* C22: try_advance returns false exactly when there is no root or the root
\* has no children, and then it changes nothing: root, lanes, pending queues
\* and transposition tables are as they were.
C22_AdvanceFalseChangesNothing ==
    [][TryAdvanceStep
          => /\ (~ai_call'.ok /\ ai_fault' = "none")
                    <=> (root = Null \/ ai_node[root].child = Null)
             /\ (~ai_call'.ok /\ ai_fault' = "none")
                    => UNCHANGED <<root, ai_node, lanes, pending_depths>>]_vars

\* try_advance returned false on a tree whose root is enqueued and has no
\* children yet
C22_Witness ==
    /\ ai_call = Call("try_advance", FALSE)
    /\ ai_fault = "none"
    /\ root # Null
    /\ ai_node[root].child = Null
    /\ root \in BucketNodes(pending_depths[0])

\* C23: the node allocate_root returns is owned by lane 0, on a fresh slot
\* and on a slot reused from the free list alike: after reset the root's
\* lane id is 0 and its slot is one of lane 0.
C23_RootOwnedByLaneZero ==
    (ai_call = Call("reset", TRUE) /\ ai_fault = "none")
        => /\ ai_node[root].thread_id = 0
           /\ root \in SeqSet(lanes[0].node_storage)

\* a step that is a call of get_tasks
GetTasksStep == ai_call.op # "get_tasks" /\ ai_call'.op = "get_tasks"

\* the batches of a vector<ThreadTasks>, as [thread_id, depth, nodes]
Batches(ts) ==
    UNION {{[thread_id |-> ts[i].thread_id, depth |-> ts[i].tasks[j].depth,
             nodes |-> ts[i].tasks[j].nodes] : j \in 1..Len(ts[i].tasks)} :
              i \in 1..Len(ts)}

\* the entries a step takes out of the pending queue of depth d
Taken(d) == pending_depths[d].tasks (-) pending_depths'[d].tasks

\* C27: in one call of get_tasks every (worker, depth) batch holds at most
\* depth_task_size nodes and no node of depth max_depth is issued; within a
\* depth the issued nodes are in non-increasing score order and score at
\* least as much as every node left pending at that depth; the nodes not
\* issued remain pending.
C27_BatchesBestFirst ==
    [][(GetTasksStep /\ ai_fault = "none")
          => /\ \A b \in Batches(threads') :
                    /\ Len(b.nodes) <= depth_task_size
                    /\ b.depth < CfgDepth
                    /\ \A c \in Batches(threads') : c.depth = b.depth => c = b
                    /\ BagCardinality(Taken(b.depth)) = Len(b.nodes)
                    /\ {e.node : e \in BagToSet(Taken(b.depth))} = SeqSet(b.nodes)
                    /\ \A i, j \in 1..Len(b.nodes) :
                          i < j => \E e, f \in BagToSet(Taken(b.depth)) :
                                      /\ e.node = b.nodes[i]
                                      /\ f.node = b.nodes[j]
                                      /\ e.value >= f.value
                    /\ \A e \in BagToSet(Taken(b.depth)) :
                          \A f \in BagToSet(pending_depths'[b.depth].tasks) :
                              e.value >= f.value
             /\ \A d \in Depths :
                    /\ pending_depths'[d].tasks \sqsubseteq pending_depths[d].tasks
                    /\ pending_depths'[d].transposition_table
                           = pending_depths[d].transposition_table
                    /\ (\A b \in Batches(threads') : b.depth # d)
                           => pending_depths'[d] = pending_depths[d]]_vars

\* get_tasks has issued a full batch of two nodes of different scores and
\* left a node pending at that depth
C27_Witness ==
    /\ ai_call.op = "get_tasks"
    /\ ai_fault = "none"
    /\ \E b \in Batches(threads) :
          /\ Len(b.nodes) = depth_task_size
          /\ ~PQEmpty(pending_depths[b.depth].tasks)

\* the number of nodes of the batches in the sequence tasks
RECURSIVE TaskCount(_)
TaskCount(tasks) ==
    IF tasks = << >> THEN 0
    ELSE Len(tasks[1].nodes) + TaskCount(Tail(tasks))

\* C28: in one call of get_tasks no worker is assigned more than
\* (2 * depth_task_size) - 1 nodes in total.
C28_WorkerTaskBound ==
    (ai_call.op = "get_tasks" /\ ai_fault = "none")
        => \A i \in 1..Len(threads) :
               TaskCount(threads[i].tasks) <= (2 * depth_task_size) - 1

\* the nodes above n by the parent links that have a parent themselves: the
\* ancestors of n other than the root
RECURSIVE InnerAncestors(_, _, _)
InnerAncestors(nd, n, acc) ==
    LET parent == nd[n].parent IN
    IF parent = Null \/ parent \in acc \/ nd[parent].parent = Null THEN acc
    ELSE InnerAncestors(nd, parent, acc \cup {parent})

\* what the leaves popped[k], popped[k + 1], ... bring node n when the k-th
\* best leaf (0-indexed) is worth award_width - k
RECURSIVE AwardOwed(_, _, _)
AwardOwed(popped, k, n) ==
    IF k > Len(popped) THEN 0
    ELSE (IF n \in InnerAncestors(ai_node, popped[k].node, {})
          THEN CfgAwardWidth - (k - 1) ELSE 0)
         + AwardOwed(popped, k + 1, n)

\* a step that is a call of finalize
FinalizeStep == ai_call.op # "finalize" /\ ai_call'.op = "finalize"

\* C29: finalize with a non-empty deepest bucket adds award_width - k to the
\* accumulated score of every ancestor of the k-th best (0-indexed) of the
\* top award_width leaves, also when the bucket holds fewer than award_width
\* leaves, and nothing for the other leaves.  (Stated for the ancestors below
\* the root.)
C29_AwardByWidth ==
    [][(/\ FinalizeStep
        /\ ai_fault' = "none"
        /\ ~PQEmpty(pending_depths[CfgDepth].tasks))
          => \E p \in PQPopSeqs(pending_depths[CfgDepth].tasks, CfgAwardWidth) :
                \A n \in 1..MaxAllocations :
                    (\E k \in 1..Len(p.popped) :
                        n \in InnerAncestors(ai_node, p.popped[k].node, {}))
                      => ai_node'[n].total_value
                            = ai_node[n].total_value + AwardOwed(p.popped, 1, n)]_vars

\* the node whose children finalize prunes, and its children before the call
PruneParent == PruneCursor(ai_node, root, {}).ret
PruneChildren == SeqSet(ChildList(ai_node, PruneParent).nodes)

\* the children finalize has left it
KeptChildren == SeqSet(ChildList(ai_node', PruneParent).nodes)

\* C30: finalize, at the shallowest node with more than one child, keeps the
\* prune_width children with the highest accumulated score when there are
\* more than prune_width, and exactly one, the highest-scoring, when there
\* are prune_width or fewer; the subtrees of the others are deallocated, the
\* child list is relinked to exactly the kept children, and no pending queue
\* or transposition table references a deallocated node.
C30_PruneKeepsWidth ==
    [][(FinalizeStep /\ ai_call'.ok /\ ai_fault' = "none")
          => /\ Cardinality(KeptChildren)
                    = IF Cardinality(PruneChildren) > CfgPruneWidth
                      THEN CfgPruneWidth ELSE 1
             /\ KeptChildren \subseteq PruneChildren
             /\ \A k \in KeptChildren : \A c \in PruneChildren \ KeptChildren :
                    ai_node'[k].total_value >= ai_node'[c].total_value
             /\ \A c \in PruneChildren \ KeptChildren :
                    SubtreeOf(ai_node, c) \subseteq FreeNodes(ai_node', lanes')
             /\ \A d \in Depths :
                    BucketNodes(pending_depths'[d]) \cap FreeNodes(ai_node', lanes') = {}]_vars

\* the number of slots on the lanes' free lists
RECURSIVE FreeTotal(_, _)
FreeTotal(ls, t) ==
    IF t \notin DOMAIN ls THEN 0
    ELSE ls[t].free_count + FreeTotal(ls, t + 1)

\* C31: after finalize or try_advance deallocates m nodes, the node count
\* is_limit_reached compares against node_limit, the sum of the lanes'
\* size(), is exactly m lower than before: a limit that count had just
\* reached is no longer reported as reached.
C31_DeallocationLowersCount ==
    [][(/\ FinalizeStep \/ TryAdvanceStep
        /\ ai_fault' = "none"
        /\ lanes # << >>
        /\ FreeTotal(lanes', 0) > FreeTotal(lanes, 0))
          => /\ LanesTotal(lanes', 0)
                    = LanesTotal(lanes, 0) - (FreeTotal(lanes', 0) - FreeTotal(lanes, 0))
             /\ ~lanes_is_limit_reached(lanes', LanesTotal(lanes, 0))]_vars

(***************************************************************************)
(* Properties of the single-threaded manager, checked under Spec.          *)
(***************************************************************************)
\* the nodes a NodeDepth holds
NodesOf(d) == {e.node : e \in BagToSet(d.unsearched)} \cup SeqSet(d.searched)

\* the number of nodes in buckets 0..max_depth
RECURSIVE BucketCount(_, _)
BucketCount(ds, i) ==
    IF i > Len(ds) THEN 0 ELSE DepthSize(ds[i]) + BucketCount(ds, i + 1)

\* 1 while a child from get_new_state awaits verify_state or report_result
AwaitingReport == IF driver \in {"alloc", "verified"} THEN 1 ELSE 0

C2_ParentsHeldAbove ==
    noir_fault = "none"
        => \A k \in 2..Len(depths) : \A n \in NodesOf(depths[k]) :
               /\ noir_node[n].parent # Null
               /\ ~noir_node[noir_node[n].parent].pruned
               /\ noir_node[n].parent \in NodesOf(depths[k - 1])

\* prepare_tree has shifted the tree, freeing the old root and a sibling or
\* an orphan, and bucket 1 still holds a node
C2_Witness ==
    /\ noir_fault = "none"
    /\ noir_call = Call("prepare_tree", TRUE)
    /\ memory.free_count >= 2
    /\ ~DepthEmpty(depths[2])

\* the depth-1 ancestors of the nodes top() of the deepest bucket may give
BestParents ==
    {noir_get_first_parent(noir_node, b) : b \in noir_get_best_node(depths) \ {Null}}

\* the nodes of bucket k whose depth-1 ancestor is X
DescendantsAt(X, k) ==
    {n \in NodesOf(depths[k]) : noir_get_first_parent(noir_node, n) = X}

\* the slots on the free list of the pool
NoirFreeNodes(nd, mem) == FreeChain(nd, mem.free_head, {})

\* a call of prepare_tree whose current_state equals the state of X
PrepareTreeWith(X) ==
    /\ noir_call'.op = "prepare_tree"
    /\ turns' = turns + 1
    /\ \/ noir_fault' # "none"
       \/ \E n \in NodesOf(depths'[1]) :
              state_equal(noir_node[X].state, noir_node'[n].state)

\* the tree after the step is the subtree of X, one depth up
ShiftedTo(X) ==
    /\ noir_fault' = "none"
    /\ noir_call' = Call("prepare_tree", TRUE)
    /\ Len(depths') = Len(depths)
    /\ NodesOf(depths'[1]) = {X}
    /\ noir_node'[X].parent = Null
    /\ depths'[1] = [unsearched |-> PQFilter(depths[2].unsearched, {X}),
                     searched |-> SelectSeq(depths[2].searched, LAMBDA n : n = X)]
    /\ \A k \in 3..Len(depths) :
          /\ depths'[k - 1].unsearched
                 = PQFilter(depths[k].unsearched, DescendantsAt(X, k))
          /\ SeqSet(depths'[k - 1].searched)
                 = SeqSet(depths[k].searched) \cap DescendantsAt(X, k)
          /\ Len(depths'[k - 1].searched) = Cardinality(SeqSet(depths'[k - 1].searched))
          /\ \A n \in DescendantsAt(X, k) :
                 /\ noir_node'[n].parent = noir_node[n].parent
                 /\ noir_node'[n].state = noir_node[n].state
                 /\ ~noir_node'[n].pruned
    /\ DepthEmpty(depths'[Len(depths)])
    /\ LET kept == {X} \cup UNION {DescendantsAt(X, k) : k \in 3..Len(depths)}
           gone == UNION {NodesOf(depths[k]) : k \in 1..Len(depths)} \ kept
       IN  /\ gone \subseteq NoirFreeNodes(noir_node', memory')
           /\ kept \cap NoirFreeNodes(noir_node', memory') = {}
           /\ get_total_node_count(memory') = Cardinality(kept)

\* C14: when the root has been expanded and the depth-1 ancestor X of the
\* top of the deepest non-empty bucket equals current_state, prepare_tree
\* shifts: bucket 0 then holds exactly X with a null parent, every descendant
\* of X is held one depth up with its searched/unsearched status, the last
\* bucket is empty, the old root, the siblings of X and their descendants
\* are deallocated, and get_total_node_count() is the size of X's subtree.
C14_PrepareTreeShifts ==
    [][\A X \in 1..MaxNoirAllocations :
          (/\ noir_fault = "none"
           /\ Len(depths) > config.depth
           /\ get_root(depths).ret # Null
           /\ BestParents = {X}
           /\ PrepareTreeWith(X))
              => ShiftedTo(X)]_vars

\* prepare_tree has shifted the tree to a node with a child, freeing the old
\* root, a sibling and the sibling's child
C14_Witness ==
    /\ noir_fault = "none"
    /\ noir_call = Call("prepare_tree", TRUE)
    /\ memory.free_count >= 3
    /\ DepthSize(depths[1]) = 1
    /\ ~DepthEmpty(depths[2])

\* get_task is about to be called with the pool at node_limit, so that it
\* calls prune
PruneCalled ==
    /\ noir_fault = "none"
    /\ driver \in {"new", "idle"}
    /\ is_limit_reached(memory, config.node_limit)

\* what prune may do when get_task calls it in this state
PruneOutcomes == prune(depths, transposition_table, NoirStore(noir_node, memory))

\* C16: every call of prune that returns true leaves get_total_node_count()
\* strictly smaller than it was before the call.
C16_PruneTrueShrinksPool ==
    PruneCalled
        => \A p \in PruneOutcomes :
               (p.ret /\ p.st.fault = "none")
                   => get_total_node_count(p.st.memory) < get_total_node_count(memory)

\* get_task is about to call prune on a tree that prune does cut: it returns
\* true
C16_Witness ==
    /\ PruneCalled
    /\ \E p \in PruneOutcomes : p.ret /\ p.st.fault = "none"

\* the depths prune works between, in the state get_task calls it
PruneFirst == get_first_active_depth_index(depths)
PruneLast == get_last_active_depth_index(depths)

\* what prune does when top() of the deepest bucket gives the entry e
PruneWith(e) ==
    PruneFrom(e.node, PruneFirst, PruneLast, depths, transposition_table,
              NoirStore(noir_node, memory))

\* prune returns true after top() gave e
PruneCuts(e) ==
    /\ PruneWith(e) \in PruneOutcomes
    /\ PruneWith(e).ret
    /\ PruneWith(e).st.fault = "none"

\* the ancestor of the best leaf e.node at the first active depth
Survivor(e) == get_parent_at(noir_node, e.node, PruneLast - PruneFirst).ret

\* after prune the first active depth holds the survivor alone, and every
\* node held from there to the deepest bucket descends from it
LineageKept(e) ==
    /\ NodesOf(PruneWith(e).depths[PruneFirst + 1]) = {Survivor(e)}
    /\ DepthSize(PruneWith(e).depths[PruneFirst + 1]) = 1
    /\ \A k \in PruneFirst..PruneLast :
          \A n \in NodesOf(PruneWith(e).depths[k + 1]) :
              get_parent_at(noir_node, n, k - PruneFirst).ret = Survivor(e)

\* the entries top() of the deepest bucket may give when prune is called
BestLeaves ==
    IF PruneCalled /\ PruneLast # SizeMax /\ PruneFirst # SizeMax
    THEN PQTops(depths[PruneLast + 1].unsearched)
    ELSE {}

SweepRanges ==
    UNION {{<<start, end>> : end \in start..Len(depths)} :
              start \in 1..(Len(depths) - 1)}

\* cleanup(start, end) run on what a first run c left
SweptAgain(c, start, end) == noir_cleanup(c.depths, start, end, c.tt, c.st)

C10_DedupWithinDepth ==
    [][(driver = "alloc" /\ noir_call'.op = "verify_state" /\ ~noir_call'.ok
        /\ noir_fault' = "none")
          => \E n \in NodesOf(depths[node_cursor.depth + 2]) :
                 state_hash(noir_node[n].state)
                     = state_hash(noir_node[node_cursor.allocated_node].state)]_vars

(***************************************************************************)
(* Properties of the parallel manager whose CollisionFunc is true for      *)
(* every pair, checked under CollisionSpec.                                *)
(***************************************************************************)
\* the nodes of bucket k enqueued or entered in the table under hash h
AcceptedNodes(dt, nd, h) ==
    {e.node : e \in {x \in BagToSet(dt.tasks) : hash_func(nd[x.node].state) = h}}
        \cup SeqSet(dt.transposition_table[h])

\* C12 as stated: with a collision predicate that is true for every pair,
\* each depth k >= 1 holds at most one accepted node, whatever the hash
\* function.
C12_OneNodePerDepth ==
    ai_fault = "none"
        => \A k \in DOMAIN pending_depths :
               k >= 1 => Cardinality(BucketNodes(pending_depths[k])) <= 1

\* C12, amended: with a collision predicate that is true for every pair,
\* each depth k >= 1 holds at most one accepted node for each hash value:
\* one transposition entry and at most one enqueued node per hash.
C12_OneNodePerHashPerDepth ==
    ai_fault = "none"
        => \A k \in DOMAIN pending_depths : \A h \in Hashes :
               k >= 1 =>
                   /\ Len(pending_depths[k].transposition_table[h]) <= 1
                   /\ Cardinality(AcceptedNodes(pending_depths[k], ai_node, h)) <= 1

\* push_new_node has just dropped a node at a depth that holds an accepted
\* node under each of the two hash values
C12_Witness ==
    /\ ai_fault = "none"
    /\ ai_call = Call("push_new_node", FALSE)
    /\ \E k \in DOMAIN pending_depths :
          /\ k >= 1
          /\ \A h \in Hashes : Len(pending_depths[k].transposition_table[h]) = 1

(***************************************************************************)
(* Properties of the single-threaded manager under the other set-ups,      *)
(* checked under SetupSpec.                                                *)
(***************************************************************************)
\* the nodes the transposition table names
TableNodes(tt) == {tt[h] : h \in DOMAIN tt} \ {Null}

\* C11: a child is dropped as a duplicate only on a true match: when
\* verify_state rejects a child, a node the transposition table names has a
\* state equal to the child's under the caller's equality predicate.
C11_DroppedOnlyOnTrueMatch ==
    [][(driver = "alloc" /\ noir_call'.op = "verify_state" /\ ~noir_call'.ok
        /\ noir_fault' = "none")
          => \E n \in TableNodes(transposition_table) :
                 state_equal(noir_node[n].state,
                             noir_node[node_cursor.allocated_node].state)]_vars

\* C17: whenever prune returns, true or false, during get_task, the live
\* node count get_total_node_count() is at most node_limit.
C17_PruneLeavesPoolWithinLimit ==
    PruneCalled
        => \A p \in PruneOutcomes :
               p.st.fault = "none"
                   => get_total_node_count(p.st.memory) <= config.node_limit

\* C18: with prune_depth_limit = 0 lineage pruning is not disabled: when
\* get_task finds the pool at node_limit and the first depth holding more
\* than one node is shallower than the deepest non-empty depth, prune runs
\* and returns true.
C18_ZeroDepthLimitPrunes ==
    (/\ PruneCalled
     /\ config.prune_depth_limit = 0
     /\ get_first_active_depth_index(depths) < get_last_active_depth_index(depths))
        => \A p \in PruneOutcomes : p.ret /\ p.st.fault = "none"

\* C19: when get_task is called with the pool at node_limit and no depth
\* bucket holds any node, prune raises the 'node_limit is too low' error
\* instead of returning false.
C19_EmptyTreeAtLimitThrows ==
    (/\ PruneCalled
     /\ \A i \in 1..Len(depths) : DepthEmpty(depths[i]))
        => \A p \in PruneOutcomes : p.st.fault = "throw"

\* C21: with max_depth = 0 the tree has a single bucket, get_task never hands
\* out a node to expand, so that no call adds a child, and get_result
\* returns none.
C21_ZeroDepthNeverExpands ==
    (config.depth = 0 /\ noir_fault = "none")
        => /\ Len(depths) <= 1
           /\ noir_call # Call("get_task", TRUE)
           /\ \A n \in 1..memory.size : noir_node[n].parent = Null
           /\ depths # << >>
                 => get_result(noir_node, depths) = {[ret |-> Null, fault |-> "none"]}

\* the depths 0..max_depth-1 whose unsearched heap is non-empty
NonEmptyHeaps ==
    {d \in 0..(config.depth - 1) :
        d < Len(depths) /\ ~PQEmpty(depths[d + 1].unsearched)}

\* the place of depth d in the cyclic order that starts at the depth cursor
CyclicDistance(d) == (d - node_cursor.depth) % config.depth

\* a step that is a call of get_task
GetTaskStep == noir_call.op # "get_task" /\ noir_call'.op = "get_task"

\* C26: get_task with the pool below node_limit returns a highest-score
\* unsearched node of the first depth, in cyclic order from the depth cursor
\* over depths 0..max_depth-1, whose unsearched heap is non-empty, and moves
\* it to that depth's searched list; it returns none exactly when all those
\* heaps are empty, and then leaves the cursor and all buckets unchanged.
C26_GetTaskRoundRobin ==
    [][(/\ GetTaskStep
        /\ noir_fault = "none"
        /\ ~is_limit_reached(memory, config.node_limit))
          => /\ noir_fault' = "none"
             /\ IF NonEmptyHeaps = {}
                THEN /\ ~noir_call'.ok
                     /\ node_cursor' = node_cursor
                     /\ depths' = depths
                ELSE LET d == CHOOSE d \in NonEmptyHeaps :
                                 \A x \in NonEmptyHeaps :
                                     CyclicDistance(d) <= CyclicDistance(x)
                     IN  /\ noir_call'.ok
                         /\ node_cursor'.depth = d
                         /\ \E e \in PQTops(depths[d + 1].unsearched) :
                               /\ node_cursor'.cursor = e.node
                               /\ depths' = [depths EXCEPT
                                      ![d + 1].unsearched = PQRemove(@, e),
                                      ![d + 1].searched = Append(@, e.node)]]_vars

\* get_task is about to call prune, and prune passes its early returns and
\* its throw, so that it reads the best leaf of the deepest non-empty bucket
PruneSelects ==
    /\ PruneCalled
    /\ config.prune_depth_limit # 0
    /\ PruneFirst <= config.prune_depth_limit
    /\ PruneFirst # PruneLast
    /\ PruneLast # SizeMax

\* C34: whenever prune gets as far as selecting the best leaf, the deepest
\* non-empty bucket holds an unsearched node, so that prune never reads the
\* top of an empty heap.
C34_PruneReadsNonEmptyHeap ==
    PruneSelects => ~PQEmpty(depths[PruneLast + 1].unsearched)

(***************************************************************************)
(* Properties of node::NodeManager, checked under NodeSpec.                *)
(***************************************************************************)
\* the root's children on the path to the nodes top() of the deepest bucket
\* may give
NodeBestParents ==
    LET ds == node_manager.depths
        last == get_last_active_depth_index(ds)
    IN  IF last = SizeMax THEN {}
        ELSE {noir_get_first_parent(node_manager.node, e.node) :
                  e \in PQTops(ds[last + 1].unsearched)} \ {Null}

\* a call of prepare_tree that returned and whose current_state is the state
\* of X
NodePrepareTreeWith(X) ==
    /\ node_run'.call.op = "prepare_tree"
    /\ node_run'.turns = node_run.turns + 1
    /\ \E n \in NodesOf(node_manager'.depths[1]) :
          node_manager'.node[n].state = node_manager.node[X].state

\* C15: after the root was expanded, prepare_tree called with the state of
\* the root's child X on the path to the best leaf shifts the tree: the call
\* does not reset, X becomes the root, and the nodes under X are kept.
C15_NodePrepareTreeShifts ==
    [][\A X \in 1..NodeMaxAllocations :
          (/\ node_run.fault = "none"
           /\ node_manager.depths # << >>
           /\ get_root(node_manager.depths).ret # Null
           /\ NodeBestParents = {X}
           /\ NodePrepareTreeWith(X))
              => /\ node_run'.call.ok
                 /\ NodesOf(node_manager'.depths[1]) = {X}
                 /\ get_total_node_count(node_manager'.memory)
                        >= 1 + Cardinality(
                               {n \in NodesOf(node_manager.depths[3]) :
                                    node_manager.node[n].parent = X})]_vars

NodePruneCalled ==
    /\ node_run.fault = "none"
    /\ node_run.driver \in {"new", "idle", "task"}
    /\ is_limit_reached(node_manager.memory, node_manager.config.node_limit)

\* what prune may do when get_task calls it in this state
NodePruneOutcomes ==
    node_prune(node_manager.depths,
               [node |-> node_manager.node, memory |-> node_manager.memory,
                fault |-> "none"])

\* C25: in prune the survivor is the ancestor (last - first) parent links
\* above the best leaf of the deepest bucket, a member of the bucket at depth
\* first, and after prune that bucket holds exactly the survivor.
C25_NodePruneKeepsAncestor ==
    NodePruneCalled
        => \A p \in NodePruneOutcomes :
               (p.ret /\ p.st.fault = "none")
                   => LET ds == node_manager.depths
                          first == get_first_active_depth_index(ds)
                          last == get_last_active_depth_index(ds)
                      IN  \E e \in PQTops(ds[last + 1].unsearched) :
                             /\ get_parent_at(node_manager.node, e.node,
                                              last - first).ret
                                    \in NodesOf(ds[first + 1])
                             /\ NodesOf(p.depths[first + 1])
                                    = {get_parent_at(node_manager.node, e.node,
                                                     last - first).ret}
                             /\ DepthSize(p.depths[first + 1]) = 1

(***************************************************************************)
(* Properties of noir::NodeMemory on its own, checked under PoolSpec.      *)
(***************************************************************************)
\* size() counts the live slots and, with remaining(), every slot created
PoolCounts(mem, live, issued) ==
    /\ MemorySize(mem) = Cardinality(live)
    /\ MemorySize(mem) + mem.free_count = Cardinality(issued)

\* C33: for any sequence of allocate, deallocate of a live node and reset:
\* allocate never returns a live slot, it returns the most recently freed slot
\* whenever the free list is not empty, size() is the number of live slots
\* (0 right after reset) and size() + remaining() is the number of slots ever
\* created.
C33_PoolBookkeeping ==
    [][/\ PoolCounts(pool.memory, pool_live, pool_issued)
       /\ PoolCounts(pool'.memory, pool_live', pool_issued')
       /\ (pool_call'.tick # pool_call.tick /\ pool_call'.op = "allocate")
             => /\ pool_call'.ret \notin pool_live
                /\ pool_freed # << >> => pool_call'.ret = pool_freed[Len(pool_freed)]
       /\ (pool_call'.tick # pool_call.tick /\ pool_call'.op = "reset")
             => MemorySize(pool'.memory) = 0]_vars

\* allocate has just reused the later of two freed slots, after a reset that
\* left a slot to be handed out again by the cursor
C33_Witness ==
    /\ pool_call.op = "allocate"
    /\ pool_freed # << >>
    /\ pool_call.ret > pool_freed[1]
    /\ pool_live = {pool_call.ret}
    /\ pool.memory.cursor < pool.memory.size
(***************************************************************************)
(* Properties of thread::ThreadPool, checked under ThreadFairSpec.         *)
(***************************************************************************)
\* C35: under every interleaving of the destructor with the workers and with
\* fair scheduling the destructor terminates: once it has set stop, every
\* worker leaves work_func and is joined.
C35_DestructorTerminates == stop ~> (owner_pc = "destroyed")
====
